---- MODULE Spec2Model ----
(***************************************************************************)
(* The order/customer workflow layer of savannah-orders: the service       *)
(* functions of services/customer_service.py and services/order_service.py *)
(* running against a transactional store, and the SMS notification that    *)
(* insert_order hands to the request's BackgroundTasks.                    *)
(*                                                                         *)
(* Every call of a service function is a request that occupies a slot and  *)
(* moves through the awaits of the function (execute, flush, commit,       *)
(* refresh), so that two requests interleave at those points.  The store   *)
(* is the committed content of the tables `customers' and `orders'; a      *)
(* request's session holds at most one pending write.                      *)
(*                                                                         *)
(* Spec runs the service functions against each other.  QuerySpec runs the *)
(* read operations on a larger database, UtilSpec calls the helpers of     *)
(* utils/ on their own, and RouteSpec puts the role gate of auth/oidc.py   *)
(* and the session of db/session.py around the service functions.          *)
(***************************************************************************)
EXTENDS Integers, FiniteSets, Sequences, TLC

VARIABLES customers, orders, nextCustomerId, nextOrderId, now, req, started

vars == <<customers, orders, nextCustomerId, nextOrderId, now, req, started>>

store == <<customers, orders, nextCustomerId, nextOrderId>>

(***************************************************************************)
(* Bounds of the model.                                                    *)
(***************************************************************************)
\* requests started in one behaviour
MaxReq == 2
\* largest customer id the store hands out
MaxCustomerId == 3
\* largest order id the store hands out
MaxOrderId == 2

\* the requests that can be in flight at the same time
Slots == {1, 2}

\* rows the database holds when the application starts
InitCustomerIds == {1, 2}
InitOrderIds == {1}

(***************************************************************************)
(* Values.                                                                 *)
(***************************************************************************)
Unset == "<unset>"

UserIds == {"u1", "u3"}
Names == {"Ann", "Bob"}
Phones == {"+254700000001", "+254700000002"}
\* (name, phone_number) pairs that pass CustomerBase's constraints
ValidPairs == {<<"Ann", "+254700000001">>, <<"Bob", "+254700000002">>}
Items == {"Pen"}
\* unit amounts and quantities a request may carry (both > 0, schemas/order.py)
Amounts == {1, 10}
Quantities == {1, 3}

\* customers.code is declared Column(Integer) while the schema reads it as
\* str: a stored code is either an integer or, on a store that does not
\* enforce the column type, a string.
StrCodes == {"CODE001"}
IntCodes == {"int:7"}
Codes == StrCodes \cup IntCodes

\* schemas/order.py OrderStatus
PENDING == "Pending"
ACTIVE == "Active"
CANCELLED == "Cancelled"
DELIVERED == "Delivered"
OrderStatus == {PENDING, ACTIVE, CANCELLED, DELIVERED}

(***************************************************************************)
(* Exceptions.  An exception is its class and, for HTTPException, the      *)
(* status code it carries.                                                 *)
(***************************************************************************)
NoExc == [type |-> "none", status_code |-> 0]
HTTPException(code) == [type |-> "HTTPException", status_code |-> code]
NoResultFound == [type |-> "NoResultFound", status_code |-> 0]
MultipleResultsFound == [type |-> "MultipleResultsFound", status_code |-> 0]
ValidationError == [type |-> "ValidationError", status_code |-> 0]
IntegrityError == [type |-> "IntegrityError", status_code |-> 0]
SQLAlchemyError == [type |-> "SQLAlchemyError", status_code |-> 0]
AttributeError == [type |-> "AttributeError", status_code |-> 0]
PyJWTError == [type |-> "PyJWTError", status_code |-> 0]
UnboundLocalError == [type |-> "UnboundLocalError", status_code |-> 0]

\* the classes `except SQLAlchemyError' catches
IsSQLAlchemyError(e) ==
    e.type \in {"SQLAlchemyError", "IntegrityError", "NoResultFound",
                "MultipleResultsFound"}

\* utils/error_handler.py: the exception handle_error_helper raises
handle_error_helper(error_code) ==
    IF error_code \in {400, 401, 403, 404, 500}
    THEN HTTPException(error_code)
    ELSE HTTPException(500)

\* what an except chain does with an exception: the status of the
\* HTTPException it raises and whether it calls db.rollback() first
Handled(code, rb) == [status |-> code, rollback |-> rb]


\* services/order_service.py insert_order, lines 60-90
insert_order_except(e) ==
    IF e.type = "NoResultFound" THEN Handled(404, TRUE)
    ELSE IF e.type = "ValidationError" THEN Handled(400, TRUE)
    ELSE IF IsSQLAlchemyError(e) THEN Handled(500, TRUE)
    ELSE Handled(500, TRUE)

\* services/order_service.py get_order_by_id, lines 115-145
get_order_by_id_except(e) ==
    IF e.type = "NoResultFound" THEN Handled(404, FALSE)
    ELSE IF e.type = "ValidationError" THEN Handled(400, FALSE)
    ELSE IF IsSQLAlchemyError(e) THEN Handled(500, FALSE)
    ELSE Handled(500, FALSE)

\* services/order_service.py update_order_by_id, lines 304-340
update_order_by_id_except(e) ==
    IF e.type = "NoResultFound" THEN Handled(404, TRUE)
    ELSE IF e.type = "ValidationError" THEN Handled(400, TRUE)
    ELSE IF IsSQLAlchemyError(e) THEN Handled(500, TRUE)
    ELSE Handled(500, TRUE)

\* services/order_service.py delete_order_by_id, lines 362-388
delete_order_by_id_except(e) ==
    IF e.type = "NoResultFound" THEN Handled(404, TRUE)
    ELSE IF IsSQLAlchemyError(e) THEN Handled(500, TRUE)
    ELSE Handled(500, TRUE)

\* insert_customer without its last `except Exception': what the other
\* clauses do not catch leaves the function as it is (status -1)
insert_customer_except_no_catch_all(e) ==
    IF e.type = "ValidationError" THEN Handled(400, TRUE)
    ELSE IF e.type = "IntegrityError" THEN Handled(400, TRUE)
    ELSE IF IsSQLAlchemyError(e) THEN Handled(500, TRUE)
    ELSE Handled(-1, FALSE)

\* services/customer_service.py insert_customer, lines 59-80
insert_customer_except(e) ==
    IF e.type = "ValidationError" THEN Handled(400, TRUE)
    ELSE IF e.type = "IntegrityError" THEN Handled(400, TRUE)
    ELSE IF IsSQLAlchemyError(e) THEN Handled(500, TRUE)
    ELSE Handled(500, TRUE)

\* services/customer_service.py get_customer_by_id, lines 104-152
get_customer_by_id_except(e) ==
    IF e.type = "NoResultFound" THEN Handled(404, FALSE)
    ELSE IF e.type = "MultipleResultsFound" THEN Handled(500, FALSE)
    ELSE IF e.type = "ValidationError" THEN Handled(400, FALSE)
    ELSE IF IsSQLAlchemyError(e) THEN Handled(500, FALSE)
    ELSE Handled(500, FALSE)

\* services/customer_service.py update_customer_by_id, lines 231-272
update_customer_by_id_except(e) ==
    IF e.type = "NoResultFound" THEN Handled(404, FALSE)
    ELSE IF e.type = "ValidationError" THEN Handled(400, TRUE)
    ELSE IF IsSQLAlchemyError(e) THEN Handled(500, TRUE)
    ELSE Handled(500, TRUE)

\* services/customer_service.py delete_customer_by_id, lines 294-325
delete_customer_by_id_except(e) ==
    IF e.type = "NoResultFound" THEN Handled(404, FALSE)
    ELSE IF IsSQLAlchemyError(e) THEN Handled(500, TRUE)
    ELSE Handled(500, TRUE)

(***************************************************************************)
(* Rows and the queries of utils/.                                         *)
(***************************************************************************)
InitUsers == <<"u1", "u2">>
InitCodes == <<"CODE001", "int:7">>
InitStatuses == {PENDING, DELIVERED}

CustomerRow(id, user_id, name, phone_number, code, at) ==
    [id |-> id, user_id |-> user_id, name |-> name,
     phone_number |-> phone_number, code |-> code,
     created_at |-> at, updated_at |-> at]

\* models/order.py: status defaults to OrderStatus.PENDING
DBOrder(customer_id, item, quantity, amount) ==
    [id |-> 0, customer_id |-> customer_id, item |-> item,
     quantity |-> quantity, amount |-> amount, status |-> PENDING,
     created_at |-> 0, updated_at |-> 0]

\* _get_customer_by_id that returns None for a missing customer instead of
\* raising
_get_customer_by_id_returns_none(customer_id) ==
    [exc |-> NoExc, rows |-> {c \in customers : c.id = customer_id}]

\* utils/customer.py _get_customer_by_id: the row, or the exception that
\* handle_error_helper(404, ...) raises
_get_customer_by_id(customer_id) ==
    LET found == {c \in customers : c.id = customer_id}
    IN  IF found = {}
        THEN [exc |-> handle_error_helper(404), rows |-> {}]
        ELSE [exc |-> NoExc, rows |-> found]

\* _get_order_by_id that returns None for a missing order instead of raising
_get_order_by_id_returns_none(order_id) ==
    [exc |-> NoExc, rows |-> {o \in orders : o.id = order_id}]

\* utils/order.py _get_order_by_id
_get_order_by_id(order_id) ==
    LET found == {o \in orders : o.id = order_id}
    IN  IF found = {}
        THEN [exc |-> handle_error_helper(404), rows |-> {}]
        ELSE [exc |-> NoExc, rows |-> found]

\* schemas/customer.py Customer.model_validate(db_customer): `code: str'
\* rejects an integer
CustomerValidates(c) == c.code \in StrCodes

\* schemas/order.py Order.model_validate(db_order)
OrderValidates(o) ==
    /\ o.amount > 0
    /\ o.quantity > 0
    /\ o.customer_id > 0
    /\ o.status \in OrderStatus

(***************************************************************************)
(* Requests.                                                               *)
(***************************************************************************)
\* no bearer token, and the TokenData of a request that has none
NoToken ==
    [raw |-> "", decodes |-> FALSE, preferred_username |-> Unset,
     roles |-> {}, roles_ok |-> TRUE, sub |-> Unset]
NoTokenData == [username |-> Unset, roles |-> {}, sub |-> Unset]

Idle ==
    [op |-> "none", pc |-> "idle", customer_id |-> 0, order_id |-> 0,
     name |-> Unset, phone_number |-> Unset, code |-> Unset,
     user_id |-> Unset, item |-> Unset, amount |-> 0, quantity |-> 0,
     new_status |-> Unset, cust |-> {}, ord |-> {}, pend |-> "none",
     exc |-> NoExc, status |-> 0, rolled_back |-> FALSE,
     committed |-> FALSE, bg |-> "none", task |-> {}, sends |-> 0,
     skip |-> 0, limit |-> 0, result |-> <<>>, count |-> 0,
     error_code |-> 0, message |-> Unset, detail |-> Unset, logs |-> <<>>,
     seed |-> Unset, order_code |-> Unset,
     required_role |-> Unset, token |-> NoToken, token_data |-> NoTokenData,
     session |-> "none", closes |-> 0]

\* a slot is free when its request has returned and the response's
\* background task, if any, has run
Returned(r) ==
    /\ req[r].pc \in {"idle", "done"}
    /\ ~(req[r].bg = "queued" /\ req[r].status = 200)
    /\ req[r].session # "open"

\* the next request takes the first slot that is free
Free(r) ==
    /\ Returned(r)
    /\ \A q \in Slots : q < r => ~Returned(q)
    /\ started < MaxReq

\* the except chain `h' catches `e': the request ends with the status the
\* chain raises and returns no object; a rollback drops the session's
\* pending write
Fail(r, e, h) ==
    req' = [req EXCEPT ![r] =
                [@ EXCEPT !.pc = "done", !.exc = e, !.status = h.status,
                          !.rolled_back = h.rollback,
                          !.pend = IF h.rollback THEN "none" ELSE @,
                          !.cust = {}, !.ord = {}]]

Goto(r, pc) == req' = [req EXCEPT ![r].pc = pc]

(***************************************************************************)
(* insert_order (services/order_service.py, lines 18-90)                   *)
(***************************************************************************)
Call_insert_order(r) ==
    /\ Free(r)
    /\ \E cid \in 1..MaxCustomerId, it \in Items, a \in Amounts,
          q \in Quantities :
          req' = [req EXCEPT ![r] =
                      [Idle EXCEPT !.op = "insert_order", !.pc = "lookup",
                                   !.customer_id = cid, !.item = it,
                                   !.amount = a, !.quantity = q]]
    /\ started' = started + 1
    /\ UNCHANGED <<store, now>>

\* lines 40-41: the customer lookup and Customer.model_validate
insert_order_lookup(r) ==
    /\ req[r].op = "insert_order" /\ req[r].pc = "lookup"
    /\ \E fault \in BOOLEAN :
          LET res == _get_customer_by_id(req[r].customer_id)
          IN  IF fault
              THEN Fail(r, SQLAlchemyError, insert_order_except(SQLAlchemyError))
              ELSE IF res.exc # NoExc
              THEN Fail(r, res.exc, insert_order_except(res.exc))
              ELSE IF \E c \in res.rows : ~CustomerValidates(c)
              THEN Fail(r, ValidationError, insert_order_except(ValidationError))
              ELSE req' = [req EXCEPT ![r].pc = "add", ![r].cust = res.rows]
    /\ UNCHANGED <<store, now, started>>

\* services/sms_service.py send_sms_task, lines 35-41: the task added to the
\* request's BackgroundTasks is send_sms with the OrderCreate payload and the
\* validated customer as its arguments
send_sms_task(r) ==
    {[func |-> "send_sms",
      order |-> [customer_id |-> req[r].customer_id, item |-> req[r].item,
                 quantity |-> req[r].quantity, amount |-> req[r].amount],
      customer |-> c] : c \in req[r].cust}

\* insert_order that schedules the notification before the commit
insert_order_add_notifies(r) ==
    /\ req[r].op = "insert_order" /\ req[r].pc = "add"
    /\ \E c \in req[r].cust :
          req' = [req EXCEPT ![r].pc = "commit", ![r].pend = "insert",
                             ![r].bg = "queued",
                             ![r].task = send_sms_task(r),
                             ![r].ord = {DBOrder(c.id, req[r].item,
                                                 req[r].quantity,
                                                 req[r].amount * req[r].quantity)}]
    /\ UNCHANGED <<store, now, started>>

\* insert_order that stores the unit amount as the order's amount
insert_order_add_unit_amount(r) ==
    /\ req[r].op = "insert_order" /\ req[r].pc = "add"
    /\ \E c \in req[r].cust :
          req' = [req EXCEPT ![r].pc = "commit", ![r].pend = "insert",
                             ![r].ord = {DBOrder(c.id, req[r].item,
                                                 req[r].quantity,
                                                 req[r].amount)}]
    /\ UNCHANGED <<store, now, started>>

\* lines 43-49: the new row is built and added to the session
insert_order_add(r) ==
    /\ req[r].op = "insert_order" /\ req[r].pc = "add"
    /\ \E c \in req[r].cust :
          req' = [req EXCEPT ![r].pc = "commit", ![r].pend = "insert",
                             ![r].ord = {DBOrder(c.id, req[r].item,
                                                 req[r].quantity,
                                                 req[r].amount * req[r].quantity)}]
    /\ UNCHANGED <<store, now, started>>

\* insert_order on an orders table whose customer_id is not a foreign key
insert_order_commit_unchecked(r) ==
    /\ req[r].op = "insert_order" /\ req[r].pc = "commit"
    /\ nextOrderId <= MaxOrderId
    /\ \E fault \in BOOLEAN, o \in req[r].ord :
          IF fault
          THEN /\ Fail(r, SQLAlchemyError, insert_order_except(SQLAlchemyError))
               /\ UNCHANGED <<store, now>>
          ELSE LET row == [o EXCEPT !.id = nextOrderId, !.created_at = now,
                                    !.updated_at = now]
               IN  /\ orders' = orders \cup {row}
                   /\ nextOrderId' = nextOrderId + 1
                   /\ now' = now + 1
                   /\ req' = [req EXCEPT ![r].pc = "refresh",
                                         ![r].pend = "none",
                                         ![r].committed = TRUE,
                                         ![r].order_id = nextOrderId,
                                         ![r].ord = {row}]
                   /\ UNCHANGED <<customers, nextCustomerId>>
    /\ UNCHANGED started

\* line 50: the INSERT is flushed and committed; the store rejects a
\* customer_id that matches no customer (ForeignKey, models/order.py)
insert_order_commit(r) ==
    /\ req[r].op = "insert_order" /\ req[r].pc = "commit"
    /\ nextOrderId <= MaxOrderId
    /\ \E fault \in BOOLEAN, o \in req[r].ord :
          IF fault
          THEN /\ Fail(r, SQLAlchemyError, insert_order_except(SQLAlchemyError))
               /\ UNCHANGED <<store, now>>
          ELSE IF ~\E c \in customers : c.id = o.customer_id
          THEN /\ Fail(r, IntegrityError, insert_order_except(IntegrityError))
               /\ UNCHANGED <<store, now>>
          ELSE LET row == [o EXCEPT !.id = nextOrderId, !.created_at = now,
                                    !.updated_at = now]
               IN  /\ orders' = orders \cup {row}
                   /\ nextOrderId' = nextOrderId + 1
                   /\ now' = now + 1
                   /\ req' = [req EXCEPT ![r].pc = "refresh",
                                         ![r].pend = "none",
                                         ![r].committed = TRUE,
                                         ![r].order_id = nextOrderId,
                                         ![r].ord = {row}]
                   /\ UNCHANGED <<customers, nextCustomerId>>
    /\ UNCHANGED started

\* line 51: db.refresh(db_order) reads the row back
insert_order_refresh(r) ==
    /\ req[r].op = "insert_order" /\ req[r].pc = "refresh"
    /\ \E fault \in BOOLEAN :
          LET found == {o \in orders : o.id = req[r].order_id}
          IN  IF fault \/ found = {}
              THEN Fail(r, SQLAlchemyError, insert_order_except(SQLAlchemyError))
              ELSE req' = [req EXCEPT ![r].pc = "notify", ![r].ord = found]
    /\ UNCHANGED <<store, now, started>>

\* insert_order that awaits send_sms itself, with a send_sms that lets the
\* gateway's exception out: the exception reaches insert_order's
\* `except Exception'
insert_order_notify_awaits_send(r) ==
    /\ req[r].op = "insert_order" /\ req[r].pc = "notify"
    /\ \E gateway_raises \in BOOLEAN :
          IF gateway_raises
          THEN req' = [req EXCEPT ![r] =
                          [@ EXCEPT !.pc = "done", !.bg = "failed",
                                    !.sends = @ + 1,
                                    !.exc = AttributeError,
                                    !.status = insert_order_except(AttributeError).status,
                                    !.rolled_back = TRUE,
                                    !.ord = {}, !.cust = {}]]
          ELSE req' = [req EXCEPT ![r].pc = "done", ![r].bg = "sent",
                                  ![r].sends = @ + 1,
                                  ![r].status = 200]
    /\ UNCHANGED <<store, now, started>>

\* lines 53-58: send_sms_task adds send_sms to the request's
\* BackgroundTasks (sms_service.py line 41), then the order is returned
insert_order_notify(r) ==
    /\ req[r].op = "insert_order" /\ req[r].pc = "notify"
    /\ IF \E o \in req[r].ord : ~OrderValidates(o)
       THEN req' = [req EXCEPT ![r] =
                       [@ EXCEPT !.pc = "done", !.bg = "queued",
                                 !.task = send_sms_task(r),
                                 !.exc = ValidationError,
                                 !.status = insert_order_except(ValidationError).status,
                                 !.rolled_back = TRUE]]
       ELSE req' = [req EXCEPT ![r].pc = "done", ![r].bg = "queued",
                               ![r].task = send_sms_task(r),
                               ![r].status = 200]
    /\ UNCHANGED <<store, now, started>>

\* send_sms whose handler re-raises what the gateway raised: the exception
\* leaves the task
send_sms_reraises(r) ==
    /\ req[r].pc = "done" /\ req[r].status = 200 /\ req[r].bg = "queued"
    /\ req[r].task # {}
    /\ \E gateway_raises \in BOOLEAN :
          req' = [req EXCEPT ![r].bg = IF gateway_raises THEN "raised"
                                       ELSE "sent",
                             ![r].sends = @ + 1]
    /\ UNCHANGED <<store, now, started>>

\* send_sms that calls the gateway a second time when the first call raised
send_sms_retries(r) ==
    /\ req[r].pc = "done" /\ req[r].status = 200 /\ req[r].bg = "queued"
    /\ req[r].task # {}
    /\ \E gateway_raises \in BOOLEAN, again \in BOOLEAN :
          req' = [req EXCEPT ![r].bg = IF gateway_raises /\ again THEN "failed"
                                       ELSE "sent",
                             ![r].sends = IF gateway_raises THEN @ + 2
                                          ELSE @ + 1]
    /\ UNCHANGED <<store, now, started>>

\* services/sms_service.py send_sms, lines 11-32: the task runs after the
\* response and calls the gateway once (line 23); what the call raises is
\* logged (line 30) and the function returns
send_sms(r) ==
    /\ req[r].pc = "done" /\ req[r].status = 200 /\ req[r].bg = "queued"
    /\ req[r].task # {}
    /\ \E gateway_raises \in BOOLEAN :
          req' = [req EXCEPT ![r].bg = IF gateway_raises THEN "failed"
                                       ELSE "sent",
                             ![r].sends = @ + 1]
    /\ UNCHANGED <<store, now, started>>

(***************************************************************************)
(* get_order_by_id (services/order_service.py, lines 93-145)               *)
(***************************************************************************)
Call_get_order_by_id(r) ==
    /\ Free(r)
    /\ \E oid \in 1..MaxOrderId :
          req' = [req EXCEPT ![r] =
                      [Idle EXCEPT !.op = "get_order_by_id", !.pc = "lookup",
                                   !.order_id = oid]]
    /\ started' = started + 1
    /\ UNCHANGED <<store, now>>

get_order_by_id(r) ==
    /\ req[r].op = "get_order_by_id" /\ req[r].pc = "lookup"
    /\ \E fault \in BOOLEAN :
          LET res == _get_order_by_id(req[r].order_id)
          IN  IF fault
              THEN Fail(r, SQLAlchemyError, get_order_by_id_except(SQLAlchemyError))
              ELSE IF res.exc # NoExc
              THEN Fail(r, res.exc, get_order_by_id_except(res.exc))
              ELSE IF \E o \in res.rows : ~OrderValidates(o)
              THEN Fail(r, ValidationError, get_order_by_id_except(ValidationError))
              ELSE req' = [req EXCEPT ![r].pc = "done", ![r].status = 200,
                                      ![r].ord = res.rows]
    /\ UNCHANGED <<store, now, started>>

(***************************************************************************)
(* update_order_by_id (services/order_service.py, lines 276-340)           *)
(***************************************************************************)
Call_update_order_by_id(r) ==
    /\ Free(r)
    /\ \E oid \in 1..MaxOrderId, st \in OrderStatus :
          req' = [req EXCEPT ![r] =
                      [Idle EXCEPT !.op = "update_order_by_id",
                                   !.pc = "lookup", !.order_id = oid,
                                   !.new_status = st]]
    /\ started' = started + 1
    /\ UNCHANGED <<store, now>>

\* line 296: assigning the status the loaded row already has leaves the
\* attribute unmodified, so that the UPDATE of line 298 carries updated_at
\* only ("update_time"); otherwise it carries status and updated_at
status_changed(rows, new_status) ==
    IF \E o \in rows : o.status # new_status THEN "update" ELSE "update_time"

\* update_order_by_id with a transition table: a Delivered order cannot be
\* moved to another status
update_order_by_id_lookup_checks_transition(r) ==
    /\ req[r].op = "update_order_by_id" /\ req[r].pc = "lookup"
    /\ \E fault \in BOOLEAN :
          LET res == _get_order_by_id(req[r].order_id)
          IN  IF fault
              THEN /\ Fail(r, SQLAlchemyError,
                           update_order_by_id_except(SQLAlchemyError))
                   /\ now' = now
              ELSE IF res.exc # NoExc
              THEN /\ Fail(r, res.exc, update_order_by_id_except(res.exc))
                   /\ now' = now
              ELSE IF \E o \in res.rows : /\ o.status = DELIVERED
                                          /\ req[r].new_status # DELIVERED
              THEN /\ Fail(r, ValidationError,
                           update_order_by_id_except(ValidationError))
                   /\ now' = now
              ELSE /\ req' = [req EXCEPT
                                ![r].pc = "commit",
                                ![r].pend = status_changed(res.rows,
                                                           req[r].new_status),
                                ![r].ord = {[o EXCEPT !.status = req[r].new_status,
                                                      !.updated_at = now]
                                              : o \in res.rows}]
                   /\ now' = now + 1
    /\ UNCHANGED <<store, started>>

\* update_order_by_id without the call of update_time
update_order_by_id_lookup_no_update_time(r) ==
    /\ req[r].op = "update_order_by_id" /\ req[r].pc = "lookup"
    /\ \E fault \in BOOLEAN :
          LET res == _get_order_by_id(req[r].order_id)
          IN  IF fault
              THEN /\ Fail(r, SQLAlchemyError,
                           update_order_by_id_except(SQLAlchemyError))
                   /\ now' = now
              ELSE IF res.exc # NoExc
              THEN /\ Fail(r, res.exc, update_order_by_id_except(res.exc))
                   /\ now' = now
              ELSE /\ req' = [req EXCEPT
                                ![r].pc = "commit",
                                ![r].pend = status_changed(res.rows,
                                                           req[r].new_status),
                                ![r].ord = {[o EXCEPT !.status = req[r].new_status]
                                              : o \in res.rows}]
                   /\ now' = now + 1
    /\ UNCHANGED <<store, started>>

\* lines 295-297: the order is loaded, its status overwritten and
\* update_time (utils/common.py) sets updated_at to the current time
update_order_by_id_lookup(r) ==
    /\ req[r].op = "update_order_by_id" /\ req[r].pc = "lookup"
    /\ \E fault \in BOOLEAN :
          LET res == _get_order_by_id(req[r].order_id)
          IN  IF fault
              THEN /\ Fail(r, SQLAlchemyError,
                           update_order_by_id_except(SQLAlchemyError))
                   /\ now' = now
              ELSE IF res.exc # NoExc
              THEN /\ Fail(r, res.exc, update_order_by_id_except(res.exc))
                   /\ now' = now
              ELSE /\ req' = [req EXCEPT
                                ![r].pc = "commit",
                                ![r].pend = status_changed(res.rows,
                                                           req[r].new_status),
                                ![r].ord = {[o EXCEPT !.status = req[r].new_status,
                                                      !.updated_at = now]
                                              : o \in res.rows}]
                   /\ now' = now + 1
    /\ UNCHANGED <<store, started>>

\* line 298: the UPDATE of the modified columns; an UPDATE that matches no
\* row raises StaleDataError, a SQLAlchemyError
update_order_by_id_commit(r) ==
    /\ req[r].op = "update_order_by_id" /\ req[r].pc = "commit"
    /\ \E fault \in BOOLEAN, o \in req[r].ord :
          LET cur == {x \in orders : x.id = o.id}
          IN  IF fault \/ cur = {}
              THEN /\ Fail(r, SQLAlchemyError,
                           update_order_by_id_except(SQLAlchemyError))
                   /\ orders' = orders
              ELSE /\ orders' = (orders \ cur) \cup
                                  {[x EXCEPT !.status =
                                                IF req[r].pend = "update"
                                                THEN o.status ELSE @,
                                             !.updated_at = o.updated_at]
                                     : x \in cur}
                   /\ req' = [req EXCEPT ![r].pc = "refresh",
                                         ![r].pend = "none",
                                         ![r].committed = TRUE]
    /\ UNCHANGED <<customers, nextCustomerId, nextOrderId, now, started>>

\* lines 299-302: the row is read back and returned
update_order_by_id_refresh(r) ==
    /\ req[r].op = "update_order_by_id" /\ req[r].pc = "refresh"
    /\ \E fault \in BOOLEAN :
          LET found == {o \in orders : o.id = req[r].order_id}
          IN  IF fault \/ found = {}
              THEN Fail(r, SQLAlchemyError,
                        update_order_by_id_except(SQLAlchemyError))
              ELSE IF \E o \in found : ~OrderValidates(o)
              THEN Fail(r, ValidationError,
                        update_order_by_id_except(ValidationError))
              ELSE req' = [req EXCEPT ![r].pc = "done", ![r].status = 200,
                                      ![r].ord = found]
    /\ UNCHANGED <<store, now, started>>

(***************************************************************************)
(* delete_order_by_id (services/order_service.py, lines 343-388)           *)
(***************************************************************************)
Call_delete_order_by_id(r) ==
    /\ Free(r)
    /\ \E oid \in 1..MaxOrderId :
          req' = [req EXCEPT ![r] =
                      [Idle EXCEPT !.op = "delete_order_by_id",
                                   !.pc = "lookup", !.order_id = oid]]
    /\ started' = started + 1
    /\ UNCHANGED <<store, now>>

\* delete_order_by_id that refuses to delete a Delivered order
delete_order_by_id_lookup_status_gated(r) ==
    /\ req[r].op = "delete_order_by_id" /\ req[r].pc = "lookup"
    /\ \E fault \in BOOLEAN :
          LET res == _get_order_by_id(req[r].order_id)
          IN  IF fault
              THEN Fail(r, SQLAlchemyError,
                        delete_order_by_id_except(SQLAlchemyError))
              ELSE IF res.exc # NoExc
              THEN Fail(r, res.exc, delete_order_by_id_except(res.exc))
              ELSE IF \E o \in res.rows : o.status = DELIVERED
              THEN Fail(r, ValidationError,
                        delete_order_by_id_except(ValidationError))
              ELSE req' = [req EXCEPT ![r].pc = "commit",
                                      ![r].pend = "delete",
                                      ![r].ord = res.rows]
    /\ UNCHANGED <<store, now, started>>

\* lines 356-357: the order is loaded and marked deleted in the session
delete_order_by_id_lookup(r) ==
    /\ req[r].op = "delete_order_by_id" /\ req[r].pc = "lookup"
    /\ \E fault \in BOOLEAN :
          LET res == _get_order_by_id(req[r].order_id)
          IN  IF fault
              THEN Fail(r, SQLAlchemyError,
                        delete_order_by_id_except(SQLAlchemyError))
              ELSE IF res.exc # NoExc
              THEN Fail(r, res.exc, delete_order_by_id_except(res.exc))
              ELSE req' = [req EXCEPT ![r].pc = "commit",
                                      ![r].pend = "delete",
                                      ![r].ord = res.rows]
    /\ UNCHANGED <<store, now, started>>

\* line 358: the DELETE is committed (a DELETE that matches no row is
\* not an error)
delete_order_by_id_commit(r) ==
    /\ req[r].op = "delete_order_by_id" /\ req[r].pc = "commit"
    /\ \E fault \in BOOLEAN :
          IF fault
          THEN /\ Fail(r, SQLAlchemyError,
                       delete_order_by_id_except(SQLAlchemyError))
               /\ orders' = orders
          ELSE /\ orders' = {o \in orders : o.id # req[r].order_id}
               /\ req' = [req EXCEPT ![r].pc = "done", ![r].status = 200,
                                     ![r].pend = "none",
                                     ![r].committed = TRUE]
    /\ UNCHANGED <<customers, nextCustomerId, nextOrderId, now, started>>

(***************************************************************************)
(* insert_customer (services/customer_service.py, lines 26-80)             *)
(*                                                                         *)
(* The payload is the object the caller passes as `customer'.  A           *)
(* CustomerCreate (schemas/customer.py) has a name and a phone number and  *)
(* no attribute `code': its code is Unset.  The function reads             *)
(* customer.code, so callers also pass objects that carry one.             *)
(***************************************************************************)
Call_insert_customer(r) ==
    /\ Free(r)
    /\ \E np \in ValidPairs, c \in Codes \cup {Unset}, u \in UserIds :
          req' = [req EXCEPT ![r] =
                      [Idle EXCEPT !.op = "insert_customer", !.pc = "add",
                                   !.name = np[1], !.phone_number = np[2],
                                   !.code = c, !.user_id = u]]
    /\ started' = started + 1
    /\ UNCHANGED <<store, now>>

\* lines 44-50: the row is built from the payload and added to the
\* session; reading an attribute the payload lacks raises AttributeError
insert_customer_add(r) ==
    /\ req[r].op = "insert_customer" /\ req[r].pc = "add"
    /\ IF req[r].code = Unset
       THEN Fail(r, AttributeError, insert_customer_except(AttributeError))
       ELSE req' = [req EXCEPT
                      ![r].pc = "flush", ![r].pend = "insert",
                      ![r].cust = {CustomerRow(0, req[r].user_id, req[r].name,
                                               req[r].phone_number,
                                               req[r].code, 0)}]
    /\ UNCHANGED <<store, now, started>>

\* a customers table without the unique constraint on user_id
UserIdTaken_unchecked(user_id) == FALSE

\* the unique constraint on customers.user_id (models/customer.py line 9)
UserIdTaken(user_id) == \E c \in customers : c.user_id = user_id

\* line 51: the INSERT is sent to the store, which checks the unique
\* constraint against the committed rows
insert_customer_flush(r) ==
    /\ req[r].op = "insert_customer" /\ req[r].pc = "flush"
    /\ \E fault \in BOOLEAN, c \in req[r].cust :
          IF fault
          THEN Fail(r, SQLAlchemyError, insert_customer_except(SQLAlchemyError))
          ELSE IF UserIdTaken(c.user_id)
          THEN Fail(r, IntegrityError, insert_customer_except(IntegrityError))
          ELSE Goto(r, "commit")
    /\ UNCHANGED <<store, now, started>>

\* line 53: the commit; the store checks the unique constraint again
\* against what other transactions have committed since the flush
insert_customer_commit(r) ==
    /\ req[r].op = "insert_customer" /\ req[r].pc = "commit"
    /\ nextCustomerId <= MaxCustomerId
    /\ \E fault \in BOOLEAN, c \in req[r].cust :
          IF fault
          THEN /\ Fail(r, SQLAlchemyError,
                       insert_customer_except(SQLAlchemyError))
               /\ UNCHANGED <<store, now>>
          ELSE IF UserIdTaken(c.user_id)
          THEN /\ Fail(r, IntegrityError,
                       insert_customer_except(IntegrityError))
               /\ UNCHANGED <<store, now>>
          ELSE LET row == [c EXCEPT !.id = nextCustomerId,
                                    !.created_at = now, !.updated_at = now]
               IN  /\ customers' = customers \cup {row}
                   /\ nextCustomerId' = nextCustomerId + 1
                   /\ now' = now + 1
                   /\ req' = [req EXCEPT ![r].pc = "refresh",
                                         ![r].pend = "none",
                                         ![r].committed = TRUE,
                                         ![r].customer_id = nextCustomerId,
                                         ![r].cust = {row}]
                   /\ UNCHANGED <<orders, nextOrderId>>
    /\ UNCHANGED started

\* lines 54-57: the row is read back, validated and returned
insert_customer_refresh(r) ==
    /\ req[r].op = "insert_customer" /\ req[r].pc = "refresh"
    /\ \E fault \in BOOLEAN :
          LET found == {c \in customers : c.id = req[r].customer_id}
          IN  IF fault \/ found = {}
              THEN Fail(r, SQLAlchemyError,
                        insert_customer_except(SQLAlchemyError))
              ELSE IF \E c \in found : ~CustomerValidates(c)
              THEN Fail(r, ValidationError,
                        insert_customer_except(ValidationError))
              ELSE req' = [req EXCEPT ![r].pc = "done", ![r].status = 200,
                                      ![r].cust = found]
    /\ UNCHANGED <<store, now, started>>

(***************************************************************************)
(* get_customer_by_id (services/customer_service.py, lines 83-152)         *)
(***************************************************************************)
Call_get_customer_by_id(r) ==
    /\ Free(r)
    /\ \E cid \in 1..MaxCustomerId :
          req' = [req EXCEPT ![r] =
                      [Idle EXCEPT !.op = "get_customer_by_id",
                                   !.pc = "lookup", !.customer_id = cid]]
    /\ started' = started + 1
    /\ UNCHANGED <<store, now>>

\* get_customer_by_id that stamps the row it reads
get_customer_by_id_touches_row(r) ==
    /\ req[r].op = "get_customer_by_id" /\ req[r].pc = "lookup"
    /\ \E fault \in BOOLEAN :
          LET res == _get_customer_by_id(req[r].customer_id)
          IN  IF fault
              THEN /\ Fail(r, SQLAlchemyError,
                           get_customer_by_id_except(SQLAlchemyError))
                   /\ customers' = customers
              ELSE IF res.exc # NoExc
              THEN /\ Fail(r, res.exc, get_customer_by_id_except(res.exc))
                   /\ customers' = customers
              ELSE IF \E c \in res.rows : ~CustomerValidates(c)
              THEN /\ Fail(r, ValidationError,
                           get_customer_by_id_except(ValidationError))
                   /\ customers' = customers
              ELSE /\ customers' =
                         (customers \ res.rows) \cup
                         {[c EXCEPT !.updated_at = now + 1] : c \in res.rows}
                   /\ req' = [req EXCEPT ![r].pc = "done", ![r].status = 200,
                                         ![r].cust = customers' \ customers]
    /\ UNCHANGED <<orders, nextCustomerId, nextOrderId, now, started>>

\* lines 99-102: the lookup and Customer.model_validate
get_customer_by_id(r) ==
    /\ req[r].op = "get_customer_by_id" /\ req[r].pc = "lookup"
    /\ \E fault \in BOOLEAN :
          LET res == _get_customer_by_id(req[r].customer_id)
          IN  IF fault
              THEN Fail(r, SQLAlchemyError,
                        get_customer_by_id_except(SQLAlchemyError))
              ELSE IF res.exc # NoExc
              THEN Fail(r, res.exc, get_customer_by_id_except(res.exc))
              ELSE IF \E c \in res.rows : ~CustomerValidates(c)
              THEN Fail(r, ValidationError,
                        get_customer_by_id_except(ValidationError))
              ELSE req' = [req EXCEPT ![r].pc = "done", ![r].status = 200,
                                      ![r].cust = res.rows]
    /\ UNCHANGED <<store, now, started>>

(***************************************************************************)
(* update_customer_by_id (services/customer_service.py, lines 204-272)     *)
(***************************************************************************)
Call_update_customer_by_id(r) ==
    /\ Free(r)
    /\ \E cid \in 1..MaxCustomerId, n \in {Unset, "Bob"},
          p \in {Unset, "+254700000002"} :
          req' = [req EXCEPT ![r] =
                      [Idle EXCEPT !.op = "update_customer_by_id",
                                   !.pc = "lookup", !.customer_id = cid,
                                   !.name = n, !.phone_number = p]]
    /\ started' = started + 1
    /\ UNCHANGED <<store, now>>

\* update_customer_helper that assigns every field of the payload, set or
\* not (model_dump without exclude_unset)
update_customer_helper_full_replace(db_user, name, phone_number) ==
    [db_user EXCEPT !.name = name, !.phone_number = phone_number]

\* utils/customer.py update_customer_helper: the fields the payload sets
\* are assigned, the others are left alone
update_customer_helper(db_user, name, phone_number) ==
    [db_user EXCEPT
        !.name = IF name = Unset THEN @ ELSE name,
        !.phone_number = IF phone_number = Unset THEN @ ELSE phone_number]

\* lines 223-224
update_customer_by_id_lookup(r) ==
    /\ req[r].op = "update_customer_by_id" /\ req[r].pc = "lookup"
    /\ \E fault \in BOOLEAN :
          LET res == _get_customer_by_id(req[r].customer_id)
          IN  IF fault
              THEN Fail(r, SQLAlchemyError,
                        update_customer_by_id_except(SQLAlchemyError))
              ELSE IF res.exc # NoExc
              THEN Fail(r, res.exc, update_customer_by_id_except(res.exc))
              ELSE req' = [req EXCEPT
                             ![r].pc = "commit",
                             ![r].pend = IF \E c \in res.rows :
                                              update_customer_helper(
                                                  c, req[r].name,
                                                  req[r].phone_number) # c
                                         THEN "update" ELSE "none",
                             ![r].cust = {update_customer_helper(
                                              c, req[r].name,
                                              req[r].phone_number)
                                            : c \in res.rows}]
    /\ UNCHANGED <<store, now, started>>

\* line 225: the UPDATE of the changed columns, when there is one;
\* updated_at has no client-side onupdate (models/base_model.py) and
\* server_onupdate emits nothing, so the UPDATE does not touch it
update_customer_by_id_commit(r) ==
    /\ req[r].op = "update_customer_by_id" /\ req[r].pc = "commit"
    /\ \E fault \in BOOLEAN :
          LET cur == {x \in customers : x.id = req[r].customer_id}
          IN  IF fault \/ (req[r].pend = "update" /\ cur = {})
              THEN /\ Fail(r, SQLAlchemyError,
                           update_customer_by_id_except(SQLAlchemyError))
                   /\ customers' = customers
              ELSE /\ customers' =
                         IF req[r].pend = "update"
                         THEN (customers \ cur) \cup
                                {update_customer_helper(x, req[r].name,
                                                        req[r].phone_number)
                                   : x \in cur}
                         ELSE customers
                   /\ req' = [req EXCEPT
                                ![r].pc = "refresh", ![r].pend = "none",
                                ![r].committed = (req[r].pend = "update")]
    /\ UNCHANGED <<orders, nextCustomerId, nextOrderId, now, started>>

\* lines 226-229
update_customer_by_id_refresh(r) ==
    /\ req[r].op = "update_customer_by_id" /\ req[r].pc = "refresh"
    /\ \E fault \in BOOLEAN :
          LET found == {c \in customers : c.id = req[r].customer_id}
          IN  IF fault \/ found = {}
              THEN Fail(r, SQLAlchemyError,
                        update_customer_by_id_except(SQLAlchemyError))
              ELSE IF \E c \in found : ~CustomerValidates(c)
              THEN Fail(r, ValidationError,
                        update_customer_by_id_except(ValidationError))
              ELSE req' = [req EXCEPT ![r].pc = "done", ![r].status = 200,
                                      ![r].cust = found]
    /\ UNCHANGED <<store, now, started>>

(***************************************************************************)
(* delete_customer_by_id (services/customer_service.py, lines 275-325)     *)
(***************************************************************************)
Call_delete_customer_by_id(r) ==
    /\ Free(r)
    /\ \E cid \in 1..MaxCustomerId :
          req' = [req EXCEPT ![r] =
                      [Idle EXCEPT !.op = "delete_customer_by_id",
                                   !.pc = "lookup", !.customer_id = cid]]
    /\ started' = started + 1
    /\ UNCHANGED <<store, now>>

\* lines 288-289
delete_customer_by_id_lookup(r) ==
    /\ req[r].op = "delete_customer_by_id" /\ req[r].pc = "lookup"
    /\ \E fault \in BOOLEAN :
          LET res == _get_customer_by_id(req[r].customer_id)
          IN  IF fault
              THEN Fail(r, SQLAlchemyError,
                        delete_customer_by_id_except(SQLAlchemyError))
              ELSE IF res.exc # NoExc
              THEN Fail(r, res.exc, delete_customer_by_id_except(res.exc))
              ELSE req' = [req EXCEPT ![r].pc = "commit",
                                      ![r].pend = "delete",
                                      ![r].cust = res.rows]
    /\ UNCHANGED <<store, now, started>>

\* delete_customer_by_id against an orders table without the foreign key
delete_customer_by_id_commit_unchecked(r) ==
    /\ req[r].op = "delete_customer_by_id" /\ req[r].pc = "commit"
    /\ \E fault \in BOOLEAN :
          IF fault
          THEN /\ Fail(r, SQLAlchemyError,
                       delete_customer_by_id_except(SQLAlchemyError))
               /\ customers' = customers
          ELSE /\ customers' = {c \in customers : c.id # req[r].customer_id}
               /\ req' = [req EXCEPT ![r].pc = "done", ![r].status = 200,
                                     ![r].pend = "none",
                                     ![r].committed = TRUE]
    /\ UNCHANGED <<orders, nextCustomerId, nextOrderId, now, started>>

\* line 290: the DELETE is committed; the store rejects it while an order
\* refers to the customer (ForeignKey, models/order.py line 20)
delete_customer_by_id_commit(r) ==
    /\ req[r].op = "delete_customer_by_id" /\ req[r].pc = "commit"
    /\ \E fault \in BOOLEAN :
          IF fault
          THEN /\ Fail(r, SQLAlchemyError,
                       delete_customer_by_id_except(SQLAlchemyError))
               /\ customers' = customers
          ELSE IF \E o \in orders : o.customer_id = req[r].customer_id
          THEN /\ Fail(r, IntegrityError,
                       delete_customer_by_id_except(IntegrityError))
               /\ customers' = customers
          ELSE /\ customers' = {c \in customers : c.id # req[r].customer_id}
               /\ req' = [req EXCEPT ![r].pc = "done", ![r].status = 200,
                                     ![r].pend = "none",
                                     ![r].committed = TRUE]
    /\ UNCHANGED <<orders, nextCustomerId, nextOrderId, now, started>>

(***************************************************************************)
(* Queries that return several rows.  A SELECT without ORDER BY yields its *)
(* rows in an order the store chooses.                                     *)
(***************************************************************************)
\* the offsets and limits a caller passes
Skips == {0, 1}
Limits == {1, 2}

Min(a, b) == IF a < b THEN a ELSE b

\* the orders in which the store can yield the rows of S
Orderings(S) ==
    {p \in [1..Cardinality(S) -> S] :
        \A i, j \in 1..Cardinality(S) : i # j => p[i] # p[j]}

\* .order_by(DBOrder.created_at.desc()): rows created at the same time come
\* in any order
order_by_created_at_desc(S) ==
    {p \in Orderings(S) :
        \A i, j \in 1..Cardinality(S) :
            i < j => p[i].created_at >= p[j].created_at}

\* .order_by(DBOrder.created_at): oldest first
order_by_created_at_asc(S) ==
    {p \in Orderings(S) :
        \A i, j \in 1..Cardinality(S) :
            i < j => p[i].created_at <= p[j].created_at}

\* .offset(skip).limit(limit) on the rows as the store yields them
offset_limit(p, skip, limit) ==
    SubSeq(p, skip + 1, Min(Len(p), skip + limit))

\* .filter(DBOrder.customer_id == customer_id)
filter_customer_id(customer_id) ==
    {o \in orders : o.customer_id = customer_id}

\* services/customer_service.py get_customer_order_count, lines 357-386
get_customer_order_count_except(e) ==
    IF e.type = "NoResultFound" THEN Handled(404, FALSE)
    ELSE IF IsSQLAlchemyError(e) THEN Handled(500, FALSE)
    ELSE Handled(500, FALSE)

\* services/customer_service.py get_customer_recent_orders, lines 430-468
get_customer_recent_orders_except(e) ==
    IF e.type = "NoResultFound" THEN Handled(404, FALSE)
    ELSE IF e.type = "ValidationError" THEN Handled(400, FALSE)
    ELSE IF IsSQLAlchemyError(e) THEN Handled(500, FALSE)
    ELSE Handled(500, FALSE)

\* services/customer_service.py get_all_customers, lines 182-201
get_all_customers_except(e) ==
    IF e.type = "ValidationError" THEN Handled(400, FALSE)
    ELSE IF IsSQLAlchemyError(e) THEN Handled(500, FALSE)
    ELSE Handled(500, FALSE)

\* services/order_service.py get_all_orders, lines 175-194
get_all_orders_except(e) ==
    IF e.type = "ValidationError" THEN Handled(400, FALSE)
    ELSE IF IsSQLAlchemyError(e) THEN Handled(500, FALSE)
    ELSE Handled(500, FALSE)

\* services/order_service.py get_orders_by_customer_id, lines 234-273
get_orders_by_customer_id_except(e) ==
    IF e.type = "NoResultFound" THEN Handled(404, FALSE)
    ELSE IF e.type = "ValidationError" THEN Handled(400, FALSE)
    ELSE IF IsSQLAlchemyError(e) THEN Handled(500, FALSE)
    ELSE Handled(500, FALSE)

(***************************************************************************)
(* get_customer_recent_orders (services/customer_service.py, 389-468)      *)
(***************************************************************************)
Call_get_customer_recent_orders(r) ==
    /\ Free(r)
    /\ \E cid \in 1..MaxCustomerId, lim \in Limits :
          req' = [req EXCEPT ![r] =
                      [Idle EXCEPT !.op = "get_customer_recent_orders",
                                   !.pc = "lookup", !.customer_id = cid,
                                   !.limit = lim]]
    /\ started' = started + 1
    /\ UNCHANGED <<store, now>>

\* line 407: the customer lookup
get_customer_recent_orders_lookup(r) ==
    /\ req[r].op = "get_customer_recent_orders" /\ req[r].pc = "lookup"
    /\ \E fault \in BOOLEAN :
          LET res == _get_customer_by_id(req[r].customer_id)
          IN  IF fault
              THEN Fail(r, SQLAlchemyError,
                        get_customer_recent_orders_except(SQLAlchemyError))
              ELSE IF res.exc # NoExc
              THEN Fail(r, res.exc, get_customer_recent_orders_except(res.exc))
              ELSE req' = [req EXCEPT ![r].pc = "query", ![r].cust = res.rows]
    /\ UNCHANGED <<store, now, started>>

\* get_customer_recent_orders whose query sorts oldest first
get_customer_recent_orders_query_ascending(r) ==
    /\ req[r].op = "get_customer_recent_orders" /\ req[r].pc = "query"
    /\ \E fault \in BOOLEAN,
          p \in order_by_created_at_asc(filter_customer_id(req[r].customer_id)) :
          LET rows == offset_limit(p, 0, req[r].limit)
          IN  IF fault
              THEN Fail(r, SQLAlchemyError,
                        get_customer_recent_orders_except(SQLAlchemyError))
              ELSE IF \E c \in req[r].cust : ~CustomerValidates(c)
              THEN Fail(r, ValidationError,
                        get_customer_recent_orders_except(ValidationError))
              ELSE IF \E i \in 1..Len(rows) : ~OrderValidates(rows[i])
              THEN Fail(r, ValidationError,
                        get_customer_recent_orders_except(ValidationError))
              ELSE req' = [req EXCEPT ![r].pc = "done", ![r].status = 200,
                                      ![r].result = rows]
    /\ UNCHANGED <<store, now, started>>

\* lines 409-428: the customer's orders, newest first, cut at `limit'; then
\* the customer and each order are validated and the orders are embedded
get_customer_recent_orders_query(r) ==
    /\ req[r].op = "get_customer_recent_orders" /\ req[r].pc = "query"
    /\ \E fault \in BOOLEAN,
          p \in order_by_created_at_desc(filter_customer_id(req[r].customer_id)) :
          LET rows == offset_limit(p, 0, req[r].limit)
          IN  IF fault
              THEN Fail(r, SQLAlchemyError,
                        get_customer_recent_orders_except(SQLAlchemyError))
              ELSE IF \E c \in req[r].cust : ~CustomerValidates(c)
              THEN Fail(r, ValidationError,
                        get_customer_recent_orders_except(ValidationError))
              ELSE IF \E i \in 1..Len(rows) : ~OrderValidates(rows[i])
              THEN Fail(r, ValidationError,
                        get_customer_recent_orders_except(ValidationError))
              ELSE req' = [req EXCEPT ![r].pc = "done", ![r].status = 200,
                                      ![r].result = rows]
    /\ UNCHANGED <<store, now, started>>

(***************************************************************************)
(* get_customer_order_count (services/customer_service.py, 328-386)        *)
(***************************************************************************)
Call_get_customer_order_count(r) ==
    /\ Free(r)
    /\ \E cid \in 1..MaxCustomerId :
          req' = [req EXCEPT ![r] =
                      [Idle EXCEPT !.op = "get_customer_order_count",
                                   !.pc = "query", !.customer_id = cid]]
    /\ started' = started + 1
    /\ UNCHANGED <<store, now>>

\* get_customer_order_count that looks the customer up first
get_customer_order_count_checks_customer(r) ==
    /\ req[r].op = "get_customer_order_count" /\ req[r].pc = "query"
    /\ \E fault \in BOOLEAN :
          IF fault
          THEN Fail(r, SQLAlchemyError,
                    get_customer_order_count_except(SQLAlchemyError))
          ELSE IF _get_customer_by_id(req[r].customer_id).rows = {}
          THEN Fail(r, NoResultFound,
                    get_customer_order_count_except(NoResultFound))
          ELSE req' = [req EXCEPT
                          ![r].pc = "done", ![r].status = 200,
                          ![r].count = Cardinality(
                              filter_customer_id(req[r].customer_id))]
    /\ UNCHANGED <<store, now, started>>

\* lines 343-355: the orders of the customer are selected and counted; the
\* customers table is not read
get_customer_order_count(r) ==
    /\ req[r].op = "get_customer_order_count" /\ req[r].pc = "query"
    /\ \E fault \in BOOLEAN :
          IF fault
          THEN Fail(r, SQLAlchemyError,
                    get_customer_order_count_except(SQLAlchemyError))
          ELSE req' = [req EXCEPT
                          ![r].pc = "done", ![r].status = 200,
                          ![r].count = Cardinality(
                              filter_customer_id(req[r].customer_id))]
    /\ UNCHANGED <<store, now, started>>

(***************************************************************************)
(* get_orders_by_customer_id (services/order_service.py, 197-273)          *)
(***************************************************************************)
Call_get_orders_by_customer_id(r) ==
    /\ Free(r)
    /\ \E cid \in 1..MaxCustomerId, sk \in Skips, lim \in Limits :
          req' = [req EXCEPT ![r] =
                      [Idle EXCEPT !.op = "get_orders_by_customer_id",
                                   !.pc = "query", !.customer_id = cid,
                                   !.skip = sk, !.limit = lim]]
    /\ started' = started + 1
    /\ UNCHANGED <<store, now>>

\* get_orders_by_customer_id without its filter
get_orders_by_customer_id_unfiltered(r) ==
    /\ req[r].op = "get_orders_by_customer_id" /\ req[r].pc = "query"
    /\ \E fault \in BOOLEAN, p \in Orderings(orders) :
          LET rows == offset_limit(p, req[r].skip, req[r].limit)
          IN  IF fault
              THEN Fail(r, SQLAlchemyError,
                        get_orders_by_customer_id_except(SQLAlchemyError))
              ELSE IF \E i \in 1..Len(rows) : ~OrderValidates(rows[i])
              THEN Fail(r, ValidationError,
                        get_orders_by_customer_id_except(ValidationError))
              ELSE req' = [req EXCEPT ![r].pc = "done", ![r].status = 200,
                                      ![r].result = rows]
    /\ UNCHANGED <<store, now, started>>

\* lines 217-232: the customer's orders, in the store's order, from `skip'
\* on and at most `limit' of them, each validated
get_orders_by_customer_id(r) ==
    /\ req[r].op = "get_orders_by_customer_id" /\ req[r].pc = "query"
    /\ \E fault \in BOOLEAN,
          p \in Orderings(filter_customer_id(req[r].customer_id)) :
          LET rows == offset_limit(p, req[r].skip, req[r].limit)
          IN  IF fault
              THEN Fail(r, SQLAlchemyError,
                        get_orders_by_customer_id_except(SQLAlchemyError))
              ELSE IF \E i \in 1..Len(rows) : ~OrderValidates(rows[i])
              THEN Fail(r, ValidationError,
                        get_orders_by_customer_id_except(ValidationError))
              ELSE req' = [req EXCEPT ![r].pc = "done", ![r].status = 200,
                                      ![r].result = rows]
    /\ UNCHANGED <<store, now, started>>

(***************************************************************************)
(* get_all_orders (services/order_service.py, 148-194)                     *)
(***************************************************************************)
Call_get_all_orders(r) ==
    /\ Free(r)
    /\ \E sk \in Skips, lim \in Limits :
          req' = [req EXCEPT ![r] =
                      [Idle EXCEPT !.op = "get_all_orders", !.pc = "query",
                                   !.skip = sk, !.limit = lim]]
    /\ started' = started + 1
    /\ UNCHANGED <<store, now>>

\* lines 166-173
get_all_orders(r) ==
    /\ req[r].op = "get_all_orders" /\ req[r].pc = "query"
    /\ \E fault \in BOOLEAN, p \in Orderings(orders) :
          LET rows == offset_limit(p, req[r].skip, req[r].limit)
          IN  IF fault
              THEN Fail(r, SQLAlchemyError,
                        get_all_orders_except(SQLAlchemyError))
              ELSE IF \E i \in 1..Len(rows) : ~OrderValidates(rows[i])
              THEN Fail(r, ValidationError,
                        get_all_orders_except(ValidationError))
              ELSE req' = [req EXCEPT ![r].pc = "done", ![r].status = 200,
                                      ![r].result = rows]
    /\ UNCHANGED <<store, now, started>>

(***************************************************************************)
(* get_all_customers (services/customer_service.py, 155-201)               *)
(***************************************************************************)
Call_get_all_customers(r) ==
    /\ Free(r)
    /\ \E sk \in Skips, lim \in Limits :
          req' = [req EXCEPT ![r] =
                      [Idle EXCEPT !.op = "get_all_customers", !.pc = "query",
                                   !.skip = sk, !.limit = lim]]
    /\ started' = started + 1
    /\ UNCHANGED <<store, now>>

\* lines 173-180
get_all_customers(r) ==
    /\ req[r].op = "get_all_customers" /\ req[r].pc = "query"
    /\ \E fault \in BOOLEAN, p \in Orderings(customers) :
          LET rows == offset_limit(p, req[r].skip, req[r].limit)
          IN  IF fault
              THEN Fail(r, SQLAlchemyError,
                        get_all_customers_except(SQLAlchemyError))
              ELSE IF \E i \in 1..Len(rows) : ~CustomerValidates(rows[i])
              THEN Fail(r, ValidationError,
                        get_all_customers_except(ValidationError))
              ELSE req' = [req EXCEPT ![r].pc = "done", ![r].status = 200,
                                      ![r].result = rows]
    /\ UNCHANGED <<store, now, started>>

(***************************************************************************)
(* The database when the application starts: init_db creates the tables    *)
(* and drops nothing, so the rows of earlier runs are there.               *)
(***************************************************************************)
InitCustomerSets ==
    {{CustomerRow(i, InitUsers[i], "Ann", "+254700000001", InitCodes[i], 0) : i \in S}
        : S \in SUBSET InitCustomerIds}

InitOrderSets(cs) ==
    UNION {{{[DBOrder(f[i][1], "Pen", 3, 30) EXCEPT !.id = i, !.status = f[i][2]]
                 : i \in S}
              : f \in [S -> {c.id : c \in cs} \X InitStatuses]}
           : S \in SUBSET InitOrderIds}

Init ==
    /\ customers \in InitCustomerSets
    /\ orders \in InitOrderSets(customers)
    /\ nextCustomerId = Cardinality(InitCustomerIds) + 1
    /\ nextOrderId = Cardinality(InitOrderIds) + 1
    /\ now = 1
    /\ req = [r \in Slots |-> Idle]
    /\ started = 0

Next ==
    \E r \in Slots :
        \/ Call_insert_order(r)
        \/ insert_order_lookup(r)
        \/ insert_order_add(r)
        \/ insert_order_commit(r)
        \/ insert_order_refresh(r)
        \/ insert_order_notify(r)
        \/ send_sms(r)
        \/ Call_get_order_by_id(r)
        \/ get_order_by_id(r)
        \/ Call_update_order_by_id(r)
        \/ update_order_by_id_lookup(r)
        \/ update_order_by_id_commit(r)
        \/ update_order_by_id_refresh(r)
        \/ Call_delete_order_by_id(r)
        \/ delete_order_by_id_lookup(r)
        \/ delete_order_by_id_commit(r)
        \/ Call_insert_customer(r)
        \/ insert_customer_add(r)
        \/ insert_customer_flush(r)
        \/ insert_customer_commit(r)
        \/ insert_customer_refresh(r)
        \/ Call_get_customer_by_id(r)
        \/ get_customer_by_id(r)
        \/ Call_update_customer_by_id(r)
        \/ update_customer_by_id_lookup(r)
        \/ update_customer_by_id_commit(r)
        \/ update_customer_by_id_refresh(r)
        \/ Call_delete_customer_by_id(r)
        \/ delete_customer_by_id_lookup(r)
        \/ delete_customer_by_id_commit(r)
        \/ Call_get_customer_order_count(r)
        \/ get_customer_order_count(r)

Spec == Init /\ [][Next]_vars


(***************************************************************************)
(* The read operations on a database that earlier runs filled: up to three *)
(* orders, some of them created at the same time.                          *)
(***************************************************************************)
QueryOrderIds == {1, 2, 3}
QueryTimes == {1, 2}

\* the orders 1..n, each owned by a customer of cs; an order with a larger
\* id was not created before one with a smaller id
QueryOrderSets(cs) ==
    UNION {{{[DBOrder(f[i][1], "Pen", 3, 30)
                  EXCEPT !.id = i, !.created_at = f[i][2],
                         !.updated_at = f[i][2]] : i \in 1..n}
              : f \in {g \in [1..n -> {c.id : c \in cs} \X QueryTimes] :
                          \A i, j \in 1..n : i < j => g[i][2] <= g[j][2]}}
           : n \in {0} \cup QueryOrderIds}

QueryInit ==
    /\ customers \in InitCustomerSets
    /\ orders \in QueryOrderSets(customers)
    /\ nextCustomerId = Cardinality(InitCustomerIds) + 1
    /\ nextOrderId = Cardinality(QueryOrderIds) + 1
    /\ now = Cardinality(QueryTimes) + 1
    /\ req = [r \in Slots |-> Idle]
    /\ started = 0

QueryNext ==
    \E r \in Slots :
        \/ Call_get_customer_recent_orders(r)
        \/ get_customer_recent_orders_lookup(r)
        \/ get_customer_recent_orders_query(r)
        \/ Call_get_customer_order_count(r)
        \/ get_customer_order_count(r)
        \/ Call_get_orders_by_customer_id(r)
        \/ get_orders_by_customer_id(r)
        \/ Call_get_all_orders(r)
        \/ get_all_orders(r)
        \/ Call_get_all_customers(r)
        \/ get_all_customers(r)
        \/ Call_get_customer_by_id(r)
        \/ get_customer_by_id(r)
        \/ Call_get_order_by_id(r)
        \/ get_order_by_id(r)

QuerySpec == QueryInit /\ [][QueryNext]_vars

(***************************************************************************)
(* The helpers of utils/: handle_error_helper and generate_cust_code,      *)
(* called on their own.  A call is a frame in a request slot.              *)
(***************************************************************************)
\* the status codes and messages a caller passes to handle_error_helper
ErrorCodes == {400, 401, 403, 404, 409, 418, 500}
Messages == {"Not Found", "Not authorized"}

\* utils/error_handler.py, lines 21-36: the detail of the exception raised
handle_error_helper_detail(error_code, message) ==
    IF error_code \in {400, 401, 403, 404, 500}
    THEN message
    ELSE "An unexpected error occurred: " \o message

\* line 20: logger.error(message)
logger_error(logs, message) ==
    Append(logs, [level |-> "ERROR", message |-> message])

Call_handle_error_helper(r) ==
    /\ Free(r)
    /\ \E code \in ErrorCodes, msg \in Messages :
          req' = [req EXCEPT ![r] =
                      [Idle EXCEPT !.op = "handle_error_helper",
                                   !.pc = "body", !.error_code = code,
                                   !.message = msg]]
    /\ started' = started + 1
    /\ UNCHANGED <<store, now>>

\* lines 20-36: the message is logged, then the match statement raises
handle_error_helper_raise(r) ==
    /\ req[r].op = "handle_error_helper" /\ req[r].pc = "body"
    /\ LET e == handle_error_helper(req[r].error_code)
       IN  req' = [req EXCEPT
                      ![r].pc = "done",
                      ![r].logs = logger_error(req[r].logs, req[r].message),
                      ![r].exc = e,
                      ![r].status = e.status_code,
                      ![r].detail = handle_error_helper_detail(
                                        req[r].error_code, req[r].message)]
    /\ UNCHANGED <<store, now, started>>

\* the seeds a caller passes to generate_cust_code (customer_id: str)
Seeds == {"", "7", "ab", "abc", "abcd", "customer-12"}
\* datetime.date.today()
Dates == {[year |-> 2024, month |-> 1, day |-> 5],
          [year |-> 2025, month |-> 12, day |-> 31],
          [year |-> 2100, month |-> 10, day |-> 9]}
\* str(uuid.uuid4())
Uuids == {"0f8fad5b-d9cb-469f-a165-70867728950e",
          "7c9e6679-7425-40de-944b-e07fc1f90ae7"}

DecimalDigits == <<"0", "1", "2", "3", "4", "5", "6", "7", "8", "9">>

\* a number below 100 as two decimal digits (%y, %m, %d)
TwoDigits(n) == DecimalDigits[(n \div 10) + 1] \o DecimalDigits[(n % 10) + 1]

\* today.strftime('%y%m%d')
strftime_ymd(d) ==
    TwoDigits(d.year % 100) \o TwoDigits(d.month) \o TwoDigits(d.day)

\* s[:n]
Prefix(s, n) == SubSeq(s, 1, Min(n, Len(s)))

\* generate_cust_code that always takes three characters, padding a short
\* seed
generate_cust_code_padded(customer_id, today, uuid4) ==
    Prefix(customer_id \o "000", 3) \o "-" \o strftime_ymd(today) \o "-"
        \o Prefix(uuid4, 8)

\* utils/code_generator.py, lines 20-28
generate_cust_code(customer_id, today, uuid4) ==
    Prefix(customer_id, 3) \o "-" \o strftime_ymd(today) \o "-"
        \o Prefix(uuid4, 8)

Call_generate_cust_code(r) ==
    /\ Free(r)
    /\ \E seed \in Seeds :
          req' = [req EXCEPT ![r] =
                      [Idle EXCEPT !.op = "generate_cust_code",
                                   !.pc = "body", !.seed = seed]]
    /\ started' = started + 1
    /\ UNCHANGED <<store, now>>

\* the body reads the date and draws the uuid, then builds the code
generate_cust_code_return(r) ==
    /\ req[r].op = "generate_cust_code" /\ req[r].pc = "body"
    /\ \E today \in Dates, uuid4 \in Uuids :
          req' = [req EXCEPT
                     ![r].pc = "done",
                     ![r].order_code =
                         generate_cust_code(req[r].seed, today, uuid4)]
    /\ UNCHANGED <<store, now, started>>

UtilNext ==
    \E r \in Slots :
        \/ Call_handle_error_helper(r)
        \/ handle_error_helper_raise(r)
        \/ Call_generate_cust_code(r)
        \/ generate_cust_code_return(r)

UtilSpec == Init /\ [][UtilNext]_vars

(***************************************************************************)
(* A request through a route: the role gate of the route's decorator       *)
(* (auth/oidc.py), then get_db (db/session.py), then the service function, *)
(* then get_db's finally clause.                                           *)
(***************************************************************************)
Roles == {"user", "admin"}

\* the bearer tokens a caller sends: none, one that does not decode, and
\* decodable ones whose payload lacks preferred_username, carries roles
\* that are not a list of strings, or carries any set of realm roles
Tokens ==
    {NoToken,
     [NoToken EXCEPT !.raw = "jwt"],
     [NoToken EXCEPT !.raw = "jwt", !.decodes = TRUE, !.roles = Roles,
                     !.sub = "u1"],
     [NoToken EXCEPT !.raw = "jwt", !.decodes = TRUE,
                     !.preferred_username = "ann", !.roles_ok = FALSE,
                     !.sub = "u1"]}
    \cup {[NoToken EXCEPT !.raw = "jwt", !.decodes = TRUE,
                          !.preferred_username = "ann", !.roles = R,
                          !.sub = "u1"] : R \in SUBSET Roles}

\* auth/oidc.py validate_token, lines 98-108: the except clauses
validate_token_except(e) ==
    IF e.type = "PyJWTError" THEN handle_error_helper(401)
    ELSE IF e.type = "ValidationError" THEN handle_error_helper(400)
    ELSE handle_error_helper(500)

\* lines 86-96: what the body of the try raises; decode_token rejects a
\* token with the error the first except clause names
validate_token_body(token) ==
    IF ~token.decodes THEN {PyJWTError}
    ELSE IF token.preferred_username = Unset THEN {handle_error_helper(401)}
    ELSE IF ~token.roles_ok THEN {ValidationError}
    ELSE {NoExc}

\* auth/oidc.py validate_token, lines 70-108: the TokenData returned or the
\* exception raised
validate_token(token) ==
    {IF e = NoExc
     THEN [exc |-> NoExc,
           data |-> [username |-> token.preferred_username,
                     roles |-> token.roles, sub |-> token.sub]]
     ELSE [exc |-> validate_token_except(e), data |-> NoTokenData]
       : e \in validate_token_body(token)}

\* auth/oidc.py get_current_user, lines 111-129
get_current_user(token) ==
    IF token.raw = ""
    THEN {[exc |-> handle_error_helper(401), data |-> NoTokenData]}
    ELSE validate_token(token)

\* the await at which the service function of a route starts
FirstPc(op) ==
    IF op \in {"get_all_orders", "get_all_customers"} THEN "query"
    ELSE "lookup"

\* routes/order.py delete_order, lines 101-114
Route_delete_order(r) ==
    /\ Free(r)
    /\ \E tok \in Tokens, oid \in 1..MaxOrderId :
          req' = [req EXCEPT ![r] =
                      [Idle EXCEPT !.op = "delete_order_by_id", !.pc = "auth",
                                   !.required_role = "admin", !.token = tok,
                                   !.order_id = oid]]
    /\ started' = started + 1
    /\ UNCHANGED <<store, now>>

\* routes/order.py read_orders, lines 55-64 (skip keeps its default)
Route_read_orders(r) ==
    /\ Free(r)
    /\ \E tok \in Tokens, lim \in Limits :
          req' = [req EXCEPT ![r] =
                      [Idle EXCEPT !.op = "get_all_orders", !.pc = "auth",
                                   !.required_role = "admin", !.token = tok,
                                   !.skip = 0, !.limit = lim]]
    /\ started' = started + 1
    /\ UNCHANGED <<store, now>>

\* routes/customer.py get_users, lines 63-72 (skip keeps its default)
Route_get_users(r) ==
    /\ Free(r)
    /\ \E tok \in Tokens, lim \in Limits :
          req' = [req EXCEPT ![r] =
                      [Idle EXCEPT !.op = "get_all_customers", !.pc = "auth",
                                   !.required_role = "admin", !.token = tok,
                                   !.skip = 0, !.limit = lim]]
    /\ started' = started + 1
    /\ UNCHANGED <<store, now>>

\* routes/order.py read_order, lines 39-52
Route_read_order(r) ==
    /\ Free(r)
    /\ \E tok \in Tokens, oid \in 1..MaxOrderId :
          req' = [req EXCEPT ![r] =
                      [Idle EXCEPT !.op = "get_order_by_id", !.pc = "auth",
                                   !.required_role = "user", !.token = tok,
                                   !.order_id = oid]]
    /\ started' = started + 1
    /\ UNCHANGED <<store, now>>

\* Depends(get_current_user): the token is validated
authenticate(r) ==
    /\ req[r].pc = "auth"
    /\ \E out \in get_current_user(req[r].token) :
          IF out.exc # NoExc
          THEN Fail(r, out.exc, Handled(out.exc.status_code, FALSE))
          ELSE req' = [req EXCEPT ![r].pc = "role",
                                  ![r].token_data = out.data]
    /\ UNCHANGED <<store, now, started>>

\* a role_checker that lets every authenticated caller through
role_checker_unchecked(r) ==
    /\ req[r].pc = "role"
    /\ req' = [req EXCEPT ![r].pc = "get_db"]
    /\ UNCHANGED <<store, now, started>>

\* auth/oidc.py has_role, lines 149-158: role_checker
role_checker(r) ==
    /\ req[r].pc = "role"
    /\ IF req[r].required_role \notin req[r].token_data.roles
       THEN Fail(r, handle_error_helper(403), Handled(403, FALSE))
       ELSE req' = [req EXCEPT ![r].pc = "get_db"]
    /\ UNCHANGED <<store, now, started>>

\* db/session.py get_db, lines 15-17, and db/init.py get_session: the
\* session is created and handed to the route.  When get_session raises,
\* get_db's finally clause runs with `db' unassigned: `await db.close()'
\* raises UnboundLocalError, which leaves get_db instead of the failure
get_db_acquire(r) ==
    /\ req[r].pc = "get_db"
    /\ \E fault \in BOOLEAN :
          IF fault
          THEN req' = [req EXCEPT ![r].pc = "done",
                                  ![r].exc = UnboundLocalError,
                                  ![r].status = 500,
                                  ![r].session = "failed"]
          ELSE req' = [req EXCEPT ![r].pc = FirstPc(req[r].op),
                                  ![r].session = "open"]
    /\ UNCHANGED <<store, now, started>>

\* db/session.py get_db, lines 18-19: after the route has returned or
\* raised, the session is closed
get_db_release(r) ==
    /\ req[r].pc = "done"
    /\ req[r].session = "open"
    /\ req' = [req EXCEPT ![r].session = "closed",
                          ![r].closes = req[r].closes + 1]
    /\ UNCHANGED <<store, now, started>>

RouteNext ==
    \E r \in Slots :
        \/ Route_delete_order(r)
        \/ Route_read_orders(r)
        \/ Route_get_users(r)
        \/ Route_read_order(r)
        \/ authenticate(r)
        \/ role_checker(r)
        \/ get_db_acquire(r)
        \/ get_db_release(r)
        \/ delete_order_by_id_lookup(r)
        \/ delete_order_by_id_commit(r)
        \/ get_all_orders(r)
        \/ get_all_customers(r)
        \/ get_order_by_id(r)

RouteSpec == Init /\ [][RouteNext]_vars

(***************************************************************************)
(* Properties.                                                             *)
(***************************************************************************)
MutatingOps ==
    {"insert_customer", "update_customer_by_id", "delete_customer_by_id",
     "insert_order", "update_order_by_id", "delete_order_by_id"}

\* the step in which request r raises exception e
Raises(r, e) == req[r].exc = NoExc /\ req'[r].exc = e

\* a step of request r (not the call that puts a request into the slot)
StepOf(r) == req'[r] # req[r] /\ started' = started

\* C1: a gateway failure while the notification is sent changes neither the
\* store nor the outcome of the insert_order that scheduled it: the request
\* has returned normally, its write is committed and was not rolled back.
C1_FailedDispatchState ==
    \A r \in Slots :
        req[r].bg = "failed" =>
            /\ req[r].op = "insert_order"
            /\ req[r].status = 200
            /\ req[r].committed
            /\ ~req[r].rolled_back

C1_FailedDispatchStep ==
    \A r \in Slots :
        (req[r].bg = "queued" /\ req'[r].bg = "failed") =>
            /\ store' = store
            /\ req' = [req EXCEPT ![r].bg = "failed",
                                  ![r].sends = req[r].sends + 1]

C1_DispatchFailureKeepsOrder ==
    [](C1_FailedDispatchState) /\ [][C1_FailedDispatchStep]_vars

\* the notification of a created order has failed, the order is in the
\* store and a get_order_by_id on its id has returned it
C1_Witness ==
    \E r, g \in Slots :
        /\ req[r].op = "insert_order" /\ req[r].bg = "failed"
        /\ req[g].op = "get_order_by_id" /\ req[g].status = 200
        /\ req[g].order_id = req[r].order_id
        /\ req[g].ord \subseteq orders /\ req[g].ord # {}

\* C2: a notification is scheduled (or sent) for an insert_order request only
\* once that request's commit has succeeded; a request whose lookup, insert
\* or commit failed has none.
C2_NotifyOnlyAfterCommit ==
    \A r \in Slots :
        req[r].op = "insert_order" =>
            /\ req[r].bg # "none" => (req[r].committed /\ req[r].order_id # 0)
            /\ (req[r].pc = "done" /\ ~req[r].committed) => req[r].bg = "none"

\* one request has committed and scheduled its notification, another has
\* failed at its commit
C2_Witness ==
    \E r, q \in Slots :
        /\ req[r].op = "insert_order" /\ req[r].committed
        /\ req[r].bg = "queued"
        /\ req[q].op = "insert_order" /\ req[q].pc = "done"
        /\ req[q].exc = SQLAlchemyError /\ ~req[q].committed
        /\ req[q].bg = "none"

\* C3: an insert_order request holds an order row (pending or committed) only
\* after its lookup has found the customer; the step in which the lookup
\* finds no customer writes no order row, issues no commit and schedules no
\* notification.
C3_RowOnlyAfterLookup ==
    \A r \in Slots :
        req[r].op = "insert_order" =>
            /\ (req[r].pend # "none" \/ req[r].committed \/ req[r].ord # {})
                   => req[r].pc \notin {"lookup"}
            /\ req[r].pc \in {"add", "commit"} =>
                   \E c \in req[r].cust : c.id = req[r].customer_id
            /\ req[r].pc = "commit" =>
                   \A o \in req[r].ord : o.customer_id = req[r].customer_id
            /\ req[r].exc = handle_error_helper(404) =>
                   /\ ~req[r].committed
                   /\ req[r].pend = "none"
                   /\ req[r].bg = "none"
                   /\ req[r].order_id = 0

C3_NoCustomerStep ==
    \A r \in Slots :
        (req[r].op = "insert_order" /\ Raises(r, handle_error_helper(404))) =>
            /\ orders' = orders
            /\ Cardinality(orders') = Cardinality(orders)
            /\ nextOrderId' = nextOrderId
            /\ (~\E c \in customers : c.id = req[r].customer_id)

C3_CheckBeforeWrite ==
    [](C3_RowOnlyAfterLookup) /\ [][C3_NoCustomerStep]_vars

\* an insert_order for a customer id that matches no customer has ended
C3_Witness ==
    \E r \in Slots :
        /\ req[r].op = "insert_order" /\ req[r].pc = "done"
        /\ req[r].exc = handle_error_helper(404)
        /\ ~\E c \in customers : c.id = req[r].customer_id

\* C4: an insert_order whose customer id matches no customer fails with
\* status 404.
C4_MissingCustomerIs404 ==
    \A r \in Slots :
        (/\ req[r].op = "insert_order" /\ req[r].pc = "done"
         /\ req[r].exc = handle_error_helper(404))
            => req[r].status = 404

\* C5: the commit of an insert_order adds exactly one order row; its amount
\* is unit amount * quantity, its status is Pending and its item, quantity
\* and customer id are the request's; a request that returns normally has
\* committed.
C5_CommitStep ==
    \A r \in Slots :
        (/\ req[r].op = "insert_order" /\ req[r].pc = "commit"
         /\ req'[r].pc = "refresh")
            => \E o \in orders' :
                  /\ o \notin orders
                  /\ \A x \in orders : x.id # o.id
                  /\ orders' = orders \cup {o}
                  /\ o.amount = req[r].amount * req[r].quantity
                  /\ o.status = PENDING
                  /\ o.item = req[r].item
                  /\ o.quantity = req[r].quantity
                  /\ o.customer_id = req[r].customer_id
                  /\ req'[r].order_id = o.id

C5_ReturnedState ==
    \A r \in Slots :
        (req[r].op = "insert_order" /\ req[r].status = 200) =>
            /\ req[r].committed
            /\ \A o \in req[r].ord :
                  /\ o.id = req[r].order_id
                  /\ o.amount = req[r].amount * req[r].quantity
                  /\ o.item = req[r].item
                  /\ o.quantity = req[r].quantity
                  /\ o.customer_id = req[r].customer_id

C5_CreateOrderPersists ==
    [](C5_ReturnedState) /\ [][C5_CommitStep]_vars

\* unit amount 10 and quantity 3 have given a stored amount of 30
C5_Witness ==
    \E r \in Slots :
        /\ req[r].op = "insert_order" /\ req[r].status = 200
        /\ req[r].amount = 10 /\ req[r].quantity = 3
        /\ \E o \in orders :
              /\ o.id = req[r].order_id /\ o.amount = 30
              /\ o.status = PENDING

\* C6: a mutating operation that surfaces an error has rolled back and has
\* left none of its writes committed.
C6_FailureLeavesNoWrite ==
    \A r \in Slots :
        (/\ req[r].op \in MutatingOps /\ req[r].pc = "done"
         /\ req[r].status # 200)
            => (req[r].rolled_back /\ ~req[r].committed)

\* C7: every failure a request surfaces carries one of the statuses 400,
\* 404, 409, 500; a store exception or an unexpected exception is surfaced
\* with status 500 and never as itself.
TaxonomyStatus == {400, 404, 409, 500}

C8_UniqueState ==
    \A c1, c2 \in customers : c1.user_id = c2.user_id => c1 = c2

C8_DuplicateStep ==
    \A r \in Slots :
        (req[r].op = "insert_customer" /\ Raises(r, IntegrityError)) =>
            /\ customers' = customers
            /\ Cardinality(customers') = Cardinality(customers)

C8_UniqueSubject ==
    [](C8_UniqueState) /\ [][C8_DuplicateStep]_vars

\* two concurrent insert_customer calls with the same user_id: both passed
\* the flush, one committed, the other failed at its commit
C8_Witness ==
    \E r, q \in Slots :
        /\ r # q
        /\ req[r].op = "insert_customer" /\ req[r].committed
        /\ req[q].op = "insert_customer" /\ req[q].exc = IntegrityError
        /\ req[r].user_id = req[q].user_id
        /\ req[r].user_id \notin {InitUsers[i] : i \in InitCustomerIds}

\* C9: an insert_customer that fails on a duplicate user_id fails with
\* status 409.
C9_DuplicateIs409 ==
    \A r \in Slots :
        (/\ req[r].op = "insert_customer" /\ req[r].pc = "done"
         /\ req[r].exc = IntegrityError)
            => req[r].status = 409

\* C10: an insert_customer with a valid name and phone number and a user_id
\* no other customer has, that meets no store failure, succeeds and returns a
\* row with that name and phone number and a non-empty code, and a
\* get_customer_by_id on the returned id yields the same row.
C10_CreateThenGet ==
    \A r \in Slots :
        (/\ req[r].op = "insert_customer" /\ req[r].pc = "done"
         /\ <<req[r].name, req[r].phone_number>> \in ValidPairs
         /\ ~\E c \in customers : /\ c.user_id = req[r].user_id
                                  /\ c.id # req[r].customer_id
         /\ req[r].exc.type \notin {"IntegrityError", "SQLAlchemyError"})
            => /\ req[r].status = 200
               /\ \E c \in req[r].cust :
                     /\ c.name = req[r].name
                     /\ c.phone_number = req[r].phone_number
                     /\ c.code \in StrCodes
               /\ \A g \in Slots :
                     (/\ req[g].op = "get_customer_by_id"
                      /\ req[g].status = 200
                      /\ req[g].customer_id = req[r].customer_id)
                         => req[g].cust = req[r].cust

\* the operations that address one record by its id
ByIdOps ==
    {"get_customer_by_id", "get_order_by_id", "update_customer_by_id",
     "update_order_by_id", "delete_customer_by_id", "delete_order_by_id"}

\* C11: an operation that addresses a record by id and finds no record with
\* that id fails with status 404.
C11_MissingIdIs404 ==
    \A r \in Slots :
        (/\ req[r].op \in ByIdOps /\ req[r].pc = "done"
         /\ req[r].exc = handle_error_helper(404))
            => req[r].status = 404

UpdateDeleteOps ==
    {"update_customer_by_id", "update_order_by_id",
     "delete_customer_by_id", "delete_order_by_id"}

\* C12: an update or delete whose lookup finds no record with the id ends
\* there: the step changes no row, the request has no pending write and has
\* issued no commit, and a request that reaches its commit holds the record
\* its lookup found.
C12_NoRecordState ==
    \A r \in Slots :
        req[r].op \in UpdateDeleteOps =>
            /\ req[r].exc = handle_error_helper(404) =>
                   /\ req[r].pc = "done"
                   /\ ~req[r].committed
                   /\ req[r].pend = "none"
            /\ req[r].pc = "commit" =>
                   IF req[r].op \in {"update_order_by_id", "delete_order_by_id"}
                   THEN \E o \in req[r].ord : o.id = req[r].order_id
                   ELSE \E c \in req[r].cust : c.id = req[r].customer_id

C12_NoRecordStep ==
    \A r \in Slots :
        (req[r].op \in UpdateDeleteOps /\ Raises(r, handle_error_helper(404))) =>
            /\ store' = store
            /\ IF req[r].op \in {"update_order_by_id", "delete_order_by_id"}
               THEN ~\E o \in orders : o.id = req[r].order_id
               ELSE ~\E c \in customers : c.id = req[r].customer_id

C12_MissingIdChangesNothing ==
    [](C12_NoRecordState) /\ [][C12_NoRecordStep]_vars

\* a delete_customer_by_id and an update_order_by_id have each ended on an id
\* that matches no record
C12_Witness ==
    \E r, q \in Slots :
        /\ req[r].op = "delete_customer_by_id" /\ req[r].pc = "done"
        /\ req[r].exc = handle_error_helper(404)
        /\ req[q].op = "update_order_by_id" /\ req[q].pc = "done"
        /\ req[q].exc = handle_error_helper(404)

\* another request that has written to the order request r addresses
OtherWriter(r) ==
    \E q \in Slots \ {r} :
        /\ req[q].op \in {"update_order_by_id", "delete_order_by_id"}
        /\ req[q].order_id = req[r].order_id
        /\ req[q].committed

\* C13: an order's status is always one of the four values, and
\* update_order_by_id on an existing order is refused for no pair of old and
\* new status: its lookup goes on to the commit unless the store fails, the
\* commit leaves the order with the new status whatever the loaded one was,
\* the request fails only on a store failure or a missing order, and when it
\* has returned normally and no other request wrote to the order, the order
\* has the new status.
C13_StatusState ==
    /\ \A o \in orders : o.status \in OrderStatus
    /\ \A r \in Slots :
          req[r].op = "update_order_by_id" =>
              /\ (req[r].pc = "done" /\ req[r].status # 200)
                     => req[r].exc \in {SQLAlchemyError,
                                        handle_error_helper(404)}
              /\ (req[r].status = 200 /\ ~OtherWriter(r))
                     => /\ \E o \in orders : /\ o.id = req[r].order_id
                                             /\ o.status = req[r].new_status
                        /\ \A o \in req[r].ord :
                              o.status = req[r].new_status

C13_UpdateStep ==
    \A r \in Slots :
        req[r].op = "update_order_by_id" =>
            /\ (/\ req[r].pc = "lookup" /\ req'[r].pc = "done"
                /\ \E o \in orders : o.id = req[r].order_id)
                   => req'[r].exc = SQLAlchemyError
            /\ (req[r].pc = "lookup" /\ req'[r].pc = "commit")
                   => \A o \in req'[r].ord : o.status = req[r].new_status
            /\ (/\ req[r].pc = "commit" /\ req'[r].pc = "refresh"
                /\ ~OtherWriter(r))
                   => \E o \in orders' : /\ o.id = req[r].order_id
                                          /\ o.status = req[r].new_status

C13_AnyStatusFollowsAny ==
    [](C13_StatusState) /\ [][C13_UpdateStep]_vars

\* an order that a get_order_by_id returned as Delivered has been moved back
\* to Pending by an update_order_by_id that returned normally
C13_Witness ==
    \E r, g \in Slots :
        /\ req[g].op = "get_order_by_id" /\ req[g].status = 200
        /\ \E o \in req[g].ord : o.status = DELIVERED
        /\ req[r].op = "update_order_by_id" /\ req[r].status = 200
        /\ req[r].order_id = req[g].order_id
        /\ req[r].new_status = PENDING
        /\ \E o \in orders : o.id = req[r].order_id /\ o.status = PENDING

\* C14: update_order_by_id sets updated_at itself, in the step before the
\* commit, to the time of that step; the commit changes the status and
\* updated_at of the addressed order and nothing else: the order's other
\* fields, the other orders and the customers stay as they are.
C14_UpdateTimeStep ==
    \A r \in Slots :
        (/\ req[r].op = "update_order_by_id"
         /\ req[r].pc = "lookup" /\ req'[r].pc = "commit")
            => /\ req'[r].pend \in {"update", "update_time"}
               /\ store' = store
               /\ \A o \in req'[r].ord :
                     /\ o.updated_at = now
                     /\ \E x \in orders :
                           /\ x.id = req[r].order_id
                           /\ x.updated_at < o.updated_at
                           /\ o = [x EXCEPT !.status = req[r].new_status,
                                            !.updated_at = now]

C14_CommitStep ==
    \A r \in Slots :
        (/\ req[r].op = "update_order_by_id"
         /\ req[r].pc = "commit" /\ req'[r].pc = "refresh")
            => /\ customers' = customers
               /\ nextCustomerId' = nextCustomerId
               /\ nextOrderId' = nextOrderId
               /\ \E x \in orders, p \in req[r].ord :
                     /\ x.id = req[r].order_id
                     /\ \E st \in {x.status, req[r].new_status} :
                           orders' = (orders \ {x}) \cup
                                        {[x EXCEPT !.status = st,
                                                  !.updated_at = p.updated_at]}

C14_UpdateOrderFrame ==
    [][C14_UpdateTimeStep /\ C14_CommitStep]_vars

\* an update_order_by_id has returned an order whose status is the new one
\* and whose updated_at is later than its created_at, the rest of the row
\* being what was stored at the start
C14_Witness ==
    \E r \in Slots :
        /\ req[r].op = "update_order_by_id" /\ req[r].status = 200
        /\ req[r].new_status = ACTIVE
        /\ req[r].ord \subseteq orders
        /\ \E o \in req[r].ord :
              /\ o.status = ACTIVE
              /\ o.updated_at > o.created_at
              /\ o.item = "Pen" /\ o.quantity = 3 /\ o.amount = 30

\* C15: update_customer_by_id writes the fields its payload sets and no
\* other: in the session and in the store a field the payload leaves unset
\* keeps its value, and the customer's id, code, user_id and created_at, the
\* other customers and the orders are not changed by any of its steps.
C15_HelperStep ==
    \A r \in Slots :
        (/\ req[r].op = "update_customer_by_id"
         /\ req[r].pc = "lookup" /\ req'[r].pc = "commit")
            => \A y \in req'[r].cust :
                  \E x \in customers :
                      /\ x.id = req[r].customer_id
                      /\ y = [x EXCEPT
                                !.name = IF req[r].name = Unset THEN x.name
                                         ELSE req[r].name,
                                !.phone_number =
                                         IF req[r].phone_number = Unset
                                         THEN x.phone_number
                                         ELSE req[r].phone_number]

C15_WriteStep ==
    \A r \in Slots :
        (req[r].op = "update_customer_by_id" /\ StepOf(r)) =>
            /\ orders' = orders
            /\ Cardinality(customers') = Cardinality(customers)
            /\ \A x \in customers :
                  IF x.id # req[r].customer_id
                  THEN x \in customers'
                  ELSE \E y \in customers' :
                          /\ y.id = x.id
                          /\ y.code = x.code
                          /\ y.user_id = x.user_id
                          /\ y.created_at = x.created_at
                          /\ req[r].name = Unset => y.name = x.name
                          /\ req[r].phone_number = Unset
                                 => y.phone_number = x.phone_number
                          /\ y.name \in {x.name, req[r].name}
                          /\ y.phone_number \in {x.phone_number,
                                                  req[r].phone_number}

C15_PartialUpdate ==
    [][C15_HelperStep /\ C15_WriteStep]_vars

\* an update that set the name only has returned: the stored row has the
\* new name and the phone number, code and user_id it had before
C15_Witness ==
    \E r \in Slots :
        /\ req[r].op = "update_customer_by_id" /\ req[r].status = 200
        /\ req[r].name = "Bob" /\ req[r].phone_number = Unset
        /\ req[r].committed
        /\ req[r].cust \subseteq customers
        /\ \E c \in req[r].cust :
              /\ c.id = 1 /\ c.name = "Bob"
              /\ c.phone_number = "+254700000001"
              /\ c.code = "CODE001" /\ c.user_id = "u1"

\* C16: an update_customer_by_id that has written to the customer and
\* returned it has refreshed updated_at: the returned row's updated_at is
\* later than the time the row was created.
C16_UpdateRefreshesUpdatedAt ==
    \A r \in Slots :
        (/\ req[r].op = "update_customer_by_id" /\ req[r].status = 200
         /\ req[r].committed)
            => \A c \in req[r].cust : c.updated_at > c.created_at

\* C17: the commit of a delete_customer_by_id on a customer that an order
\* refers to is rejected: it changes neither the customers nor the orders
\* and the request fails with status 500 or 409; no step of a
\* delete_customer_by_id changes the orders.
C17_RejectedState ==
    \A r \in Slots :
        (req[r].op = "delete_customer_by_id" /\ req[r].exc = IntegrityError)
            => /\ req[r].pc = "done"
               /\ req[r].status \in {500, 409}
               /\ req[r].rolled_back
               /\ ~req[r].committed

C17_DeleteStep ==
    \A r \in Slots :
        (req[r].op = "delete_customer_by_id" /\ StepOf(r)) =>
            /\ orders' = orders
            /\ (/\ req[r].pc = "commit"
                /\ \E o \in orders : o.customer_id = req[r].customer_id)
                   => /\ customers' = customers
                      /\ req'[r].pc = "done"
                      /\ req'[r].status \in {500, 409}

C17_ReferencedCustomerStays ==
    [](C17_RejectedState) /\ [][C17_DeleteStep]_vars

\* a delete_customer_by_id was rejected by the store; the customer and the
\* order that refers to it are still there
C17_Witness ==
    \E r \in Slots :
        /\ req[r].op = "delete_customer_by_id" /\ req[r].pc = "done"
        /\ req[r].exc = IntegrityError
        /\ \E c \in customers : c.id = req[r].customer_id
        /\ \E o \in orders : o.customer_id = req[r].customer_id

\* C18: delete_order_by_id is refused for no status: its lookup of an
\* existing order goes on to the commit unless the store fails, and the
\* commit removes the order with that id and changes nothing else; order
\* ids are not handed out again, so that once the request has returned
\* normally no order has that id.
C18_DeletedState ==
    \A r \in Slots :
        req[r].op = "delete_order_by_id" =>
            /\ (req[r].pc = "done" /\ req[r].status # 200)
                   => req[r].exc \in {SQLAlchemyError,
                                      handle_error_helper(404)}
            /\ req[r].status = 200
                   => /\ req[r].committed
                      /\ ~\E o \in orders : o.id = req[r].order_id

C18_DeleteStep ==
    \A r \in Slots :
        (req[r].op = "delete_order_by_id" /\ StepOf(r)) =>
            /\ customers' = customers
            /\ (/\ req[r].pc = "lookup" /\ req'[r].pc = "done"
                /\ \E o \in orders : o.id = req[r].order_id)
                   => req'[r].exc = SQLAlchemyError
            /\ (req[r].pc = "commit" /\ req'[r].status = 200)
                   => orders' = {o \in orders : o.id # req[r].order_id}
            /\ ~(req[r].pc = "commit" /\ req'[r].status = 200)
                   => orders' = orders

C19_SwallowedState ==
    \A r \in Slots :
        /\ req[r].bg \in {"none", "queued", "sent", "failed"}
        /\ req[r].bg = "failed" =>
               /\ req[r].sends = 1
               /\ req[r].exc = NoExc
               /\ req[r].pc = "done"

C19_SwallowedStep ==
    \A r \in Slots :
        /\ (StepOf(r) /\ req[r].bg = "queued" /\ req[r].pc = "done") =>
               /\ req'[r].bg \in {"sent", "failed"}
               /\ req' = [req EXCEPT ![r].bg = req'[r].bg,
                                     ![r].sends = req[r].sends + 1]
               /\ store' = store
        /\ ~(StepOf(r) /\ req[r].bg = "failed")

C19_GatewayFailureIsSwallowed ==
    [](C19_SwallowedState) /\ [][C19_SwallowedStep]_vars

\* the gateway raised while the notification of a created order was sent,
\* and another request has run to its end after that
C19_Witness ==
    \E r, q \in Slots :
        /\ r # q
        /\ req[r].op = "insert_order" /\ req[r].bg = "failed"
        /\ req[r].sends = 1
        /\ req[q].op = "get_customer_by_id" /\ req[q].status = 200
        /\ started = MaxReq

\* C20: an insert_order that returns normally has enqueued exactly one task,
\* send_sms with the request's order data and the customer the order
\* belongs to; the gateway is not called before the request has returned,
\* and it is called at most once for the request; no other operation
\* enqueues a task.
C20_OneTaskState ==
    \A r \in Slots :
        /\ req[r].sends <= 1
        /\ req[r].sends = 1 <=> req[r].bg \in {"sent", "failed"}
        /\ req[r].pc # "done" => (req[r].sends = 0 /\ req[r].task = {})
        /\ req[r].op # "insert_order" => (req[r].task = {} /\ req[r].bg = "none")
        /\ (req[r].op = "insert_order" /\ req[r].status = 200) =>
               /\ req[r].bg # "none"
               /\ Cardinality(req[r].task) = 1
               /\ \A t \in req[r].task :
                     /\ t.func = "send_sms"
                     /\ t.order = [customer_id |-> req[r].customer_id,
                                   item |-> req[r].item,
                                   quantity |-> req[r].quantity,
                                   amount |-> req[r].amount]
                     /\ t.customer.id = req[r].customer_id
                     /\ \E o \in req[r].ord :
                           /\ o.id = req[r].order_id
                           /\ o.customer_id = t.customer.id

C20_SendStep ==
    \A r \in Slots :
        (StepOf(r) /\ req'[r].sends # req[r].sends) =>
            /\ req[r].sends = 0 /\ req'[r].sends = 1
            /\ req[r].pc = "done" /\ req[r].status = 200
            /\ req'[r].task = req[r].task

C20_AtMostOnce ==
    [](C20_OneTaskState) /\ [][C20_SendStep]_vars

\* an order of 3 items at 10 has been created and its one notification has
\* been sent
C20_Witness ==
    \E r \in Slots :
        /\ req[r].op = "insert_order" /\ req[r].status = 200
        /\ req[r].bg = "sent" /\ req[r].sends = 1
        /\ \E t \in req[r].task :
              /\ t.order.quantity = 3 /\ t.order.amount = 10
              /\ t.customer.phone_number = "+254700000001"
        /\ \E o \in orders : o.id = req[r].order_id

(***************************************************************************)
(* Properties of the read operations.                                      *)
(***************************************************************************)
\* the rows a result holds
Rows(res) == {res[i] : i \in 1..Len(res)}

\* no row occurs twice in a result
NoRepeat(res) == \A i, j \in 1..Len(res) : i # j => res[i] # res[j]

\* C21: RecentCustomerOrders answers with the customer's own record ...
C21_RecentState ==
    \A r \in Slots :
        (/\ req[r].op = "get_customer_recent_orders"
         /\ req[r].pc = "done"
         /\ req[r].status = 200)
        => /\ req[r].cust # {}
           /\ req[r].cust = {c \in customers : c.id = req[r].customer_id}

\* ... and, embedded in it, min(limit, n) of the customer's n orders, newest
\* first, none of the orders left out being newer than a returned one
C21_RecentStep ==
    \A r \in Slots :
        (/\ StepOf(r)
         /\ req[r].op = "get_customer_recent_orders"
         /\ req[r].pc = "query"
         /\ req'[r].status = 200)
        => LET own == filter_customer_id(req[r].customer_id)
               res == req'[r].result
           IN  /\ Len(res) = Min(req[r].limit, Cardinality(own))
               /\ Rows(res) \subseteq own
               /\ NoRepeat(res)
               /\ \A i, j \in 1..Len(res) :
                     i < j => res[i].created_at >= res[j].created_at
               /\ \A o \in own \ Rows(res) : \A i \in 1..Len(res) :
                     o.created_at <= res[i].created_at

\* the query of a customer whose record passes the schema returns, unless
\* the store fails
C21_ReturnsStep ==
    \A r \in Slots :
        (/\ StepOf(r)
         /\ req[r].op = "get_customer_recent_orders"
         /\ req[r].pc = "query"
         /\ \A c \in req[r].cust : CustomerValidates(c))
        => \/ req'[r].status = 200
           \/ Raises(r, SQLAlchemyError)

\* C21: for an existing customer with n orders RecentCustomerOrders(id, limit)
\* returns the customer's own fields with min(limit, n) embedded orders, all
\* owned by that customer, newest first, and no order left out is newer than a
\* returned one
C21_RecentOrders ==
    []C21_RecentState /\ [][C21_RecentStep /\ C21_ReturnsStep]_vars

\* two of a customer's three orders were returned, the newer one first, and
\* the order left out is older than both
C21_Witness ==
    \E r \in Slots :
        /\ req[r].op = "get_customer_recent_orders"
        /\ req[r].pc = "done"
        /\ req[r].status = 200
        /\ Cardinality(filter_customer_id(req[r].customer_id)) = 3
        /\ Len(req[r].result) = 2
        /\ req[r].result[1].created_at > req[r].result[2].created_at
        /\ \E o \in filter_customer_id(req[r].customer_id) :
              /\ o \notin Rows(req[r].result)
              /\ o.created_at < req[r].result[1].created_at

\* the count step of a request answers with the number of stored orders whose
\* customer_id is the id asked for, whether or not a customer has that id
C22_CountStep ==
    \A r \in Slots :
        (/\ StepOf(r)
         /\ req[r].op = "get_customer_order_count"
         /\ req[r].pc = "query")
        => \/ /\ Raises(r, SQLAlchemyError)
              /\ req'[r].status = 500
           \/ /\ req'[r].status = 200
              /\ req'[r].exc = NoExc
              /\ req'[r].count =
                    Cardinality({o \in orders :
                                    o.customer_id = req[r].customer_id})
              /\ (~\E c \in customers : c.id = req[r].customer_id)
                    => req'[r].count = 0

\* a count request never ends with NotFound
C22_CountState ==
    \A r \in Slots :
        req[r].op = "get_customer_order_count" => req[r].status # 404

C23_ListStep ==
    \A r \in Slots :
        (/\ StepOf(r)
         /\ req[r].op = "get_orders_by_customer_id"
         /\ req[r].pc = "query")
        => \/ /\ Raises(r, SQLAlchemyError)
              /\ req'[r].status = 500
           \/ LET own == filter_customer_id(req[r].customer_id)
                  res == req'[r].result
              IN  /\ req'[r].status = 200
                  /\ req'[r].exc = NoExc
                  /\ Len(res) <= req[r].limit
                  /\ Len(res) = Min(req[r].limit,
                                    IF Cardinality(own) > req[r].skip
                                    THEN Cardinality(own) - req[r].skip
                                    ELSE 0)
                  /\ Rows(res) \subseteq own
                  /\ NoRepeat(res)
                  /\ (~\E c \in customers : c.id = req[r].customer_id)
                        => res = <<>>

\* a ListCustomerOrders request never ends with NotFound
C23_ListState ==
    \A r \in Slots :
        req[r].op = "get_orders_by_customer_id" => req[r].status # 404

\* C23: ListCustomerOrders(customerId, skip, limit) returns at most limit
\* orders, each owned by customerId and none repeated; for an id that matches
\* no customer it returns an empty list and does not signal NotFound
C23_ListCustomerOrders == []C23_ListState /\ [][C23_ListStep]_vars

\* one order of a customer who has two was returned while another customer
\* has an order too, after one order was skipped
C23_Witness ==
    \E r \in Slots :
        /\ req[r].op = "get_orders_by_customer_id"
        /\ req[r].pc = "done"
        /\ req[r].status = 200
        /\ req[r].skip = 1
        /\ Len(req[r].result) = 1
        /\ Cardinality(filter_customer_id(req[r].customer_id)) = 2
        /\ \E o \in orders : o.customer_id # req[r].customer_id

\* GetCustomer, GetOrder, ListCustomers, ListOrders, ListCustomerOrders,
\* CountCustomerOrders, RecentCustomerOrders
ReadOps ==
    {"get_customer_by_id", "get_order_by_id", "get_all_customers",
     "get_all_orders", "get_orders_by_customer_id",
     "get_customer_order_count", "get_customer_recent_orders"}

\* a step of a read operation leaves the tables and the id counters as they
\* are
C25_ReadStep ==
    \A r \in Slots :
        (StepOf(r) /\ req[r].op \in ReadOps) => store' = store

\* two GetCustomer calls for the same id that both returned, with only read
\* operations started in the run, hold the same field values
C25_SameAnswerState ==
    (\A r \in Slots : req[r].op \in ReadOps \cup {"none"})
    => \A r, q \in Slots :
          (/\ req[r].op = "get_customer_by_id"
           /\ req[q].op = "get_customer_by_id"
           /\ req[r].customer_id = req[q].customer_id
           /\ req[r].status = 200
           /\ req[q].status = 200)
          => req[r].cust = req[q].cust

\* C25: the read operations leave the store unchanged, so GetCustomer(id)
\* called twice with no mutation in between returns identical field values
C25_ReadsChangeNothing == []C25_SameAnswerState /\ [][C25_ReadStep]_vars

\* two GetCustomer calls for the same customer have both returned it
C25_Witness ==
    /\ req[1].op = "get_customer_by_id"
    /\ req[2].op = "get_customer_by_id"
    /\ req[1].customer_id = req[2].customer_id
    /\ req[1].status = 200
    /\ req[2].status = 200
    /\ req[1].cust # {}
    /\ req[1].cust = req[2].cust

IsDigits(s) ==
    \A i \in 1..Len(s) : \E d \in 1..Len(DecimalDigits) :
        SubSeq(s, i, i) = DecimalDigits[d]

C28_OrdersHaveCustomers ==
    \A o \in orders : \E c \in customers : c.id = o.customer_id

\* DeleteCustomer(c) committed after CreateOrder had looked c up, and the
\* order's commit was then rejected
C28_Witness ==
    \E r, q \in Slots :
        /\ req[r].op = "insert_order"
        /\ req[r].exc = IntegrityError
        /\ req[q].op = "delete_customer_by_id"
        /\ req[q].customer_id = req[r].customer_id
        /\ req[q].status = 200
        /\ req[q].committed
        /\ ~\E c \in customers : c.id = req[r].customer_id
        /\ ~\E o \in orders : o.customer_id = req[r].customer_id

(***************************************************************************)
(* Properties of the route layer.                                          *)
(***************************************************************************)
\* C26: the session acquired for a call is released exactly once when the
\* call completes, whether it returns or raises, and a failure to acquire the
\* session surfaces as that failure (the error get_session raises), not as
\* an error of the release step
C26_SessionScoped ==
    \A r \in Slots :
        /\ req[r].closes <= 1
        /\ req[r].session = "open" => req[r].closes = 0
        /\ req[r].session = "closed"
              => req[r].closes = 1 /\ req[r].pc = "done"
        /\ req[r].session = "failed"
              => req[r].closes = 0 /\ req[r].exc = handle_error_helper(500)

\* the request of r ended inside validate_token
FailedInValidateToken(r) ==
    /\ req[r].pc = "done"
    /\ req[r].required_role # Unset
    /\ req[r].token.raw # ""
    /\ req[r].token_data = NoTokenData
    /\ req[r].exc # NoExc

\* C29: validate_token on a token that decodes but carries no
\* preferred_username fails with 401, not 500; an invalid token fails with
\* 401 as well
C29_MissingClaimIs401 ==
    \A r \in Slots :
        FailedInValidateToken(r)
        => /\ (req[r].token.decodes /\ req[r].token.preferred_username = Unset)
                 => req[r].status = 401
           /\ ~req[r].token.decodes => req[r].status = 401

\* DeleteOrder, ListOrders, ListCustomers
AdminOps == {"delete_order_by_id", "get_all_orders", "get_all_customers"}

\* role_checker passes the token data on exactly when the required role is
\* among the caller's roles, and otherwise ends the request with 403
C30_GateStep ==
    \A r \in Slots :
        (StepOf(r) /\ req[r].pc = "role")
        => IF req[r].required_role \in req[r].token_data.roles
           THEN /\ req'[r].pc = "get_db"
                /\ req'[r].exc = NoExc
                /\ req'[r].token_data = req[r].token_data
           ELSE /\ req'[r].pc = "done"
                /\ req'[r].status = 403
                /\ req'[r].session = "none"

\* a request whose caller lacks the route's role never gets past the gate:
\* it has no session, has read and written nothing, and ends with an error
C30_GateState ==
    \A r \in Slots :
        (/\ req[r].required_role # Unset
         /\ req[r].required_role \notin req[r].token.roles)
        => /\ req[r].pc \in {"auth", "role", "done"}
           /\ req[r].session = "none"
           /\ ~req[r].committed
           /\ req[r].pend = "none"
           /\ req[r].result = <<>>
           /\ req[r].ord = {}
           /\ req[r].pc = "done" => req[r].status \in {400, 401, 403, 500}

\* no step of an admin operation whose caller lacks the admin role touches
\* the store
C30_NoRunStep ==
    \A r \in Slots :
        (/\ StepOf(r)
         /\ req[r].op \in AdminOps
         /\ "admin" \notin req[r].token.roles)
        => /\ store' = store
           /\ req[r].pc \in {"auth", "role"}

\* every request of an admin operation carries the admin requirement
C30_AdminRoutesGated ==
    \A r \in Slots : req[r].op \in AdminOps => req[r].required_role = "admin"

====
